---- MODULE Spec2Model ----
(***************************************************************************)
(* Model of the multi-signal risk/opportunity fusion engine of the         *)
(* degen-tg-bot repository: the three-layer analysis (microstructure,      *)
(* structural health, outcome predictor) and the analyzers it calls.       *)
(*                                                                         *)
(* Numbers.  JavaScript numbers are modelled by integers in a fixed unit   *)
(* per field, stated where the field is introduced:                        *)
(*   scores (microScore, structuralScore, riskScore, ...)   units of 1     *)
(*   volatilityTrendPct                                     units of 1/100 *)
(*   volatilityStdDevRecent                                 units of 1/1000*)
(*   expectedDipDepthPct                                    units of 1/10  *)
(*   entryZone.min/max/optimal          units of 1/100 of the price unit   *)
(* NaN is a distinguished value outside every range used; every read of a  *)
(* possibly-NaN field goes through the guard the code applies to it.       *)
(* Arithmetic is exact (no binary floating-point rounding error).          *)
(***************************************************************************)
EXTENDS Integers, Sequences, FiniteSets, TLC

VARIABLES
    pc,                 \* position of the running call
    currentPrice,       \* predictOutcome argument
    micro,              \* MicrostructureSignals handed to predictOutcome
    structural,         \* StructuralSignals handed to predictOutcome
    outcome,            \* the Outcome returned
    holder,             \* classifyWallet argument
    walletScore,        \* the WalletQualityScore returned
    priceHistory,       \* sequence of prices handed to the analyzers
    txAnalysis,         \* TransactionAnalysis handed to the analyzers
    holders,            \* sequence of HolderInfo handed to the analyzers
    tokenInfo,          \* TokenInfo handed to the analyzers
    thrown,             \* TRUE iff the call ended in an exception
    bundles,            \* the BundleGroup list detectBundles returned
    lpHealth,           \* the LPHealthSignals LPHealthAnalyzer.analyze returned
    sellerSignals,      \* the SellerExhaustionSignals returned
    zoneFlags,          \* the JeeterZoneFlags detect returned
    holderAnalysis,     \* calculateJeeterRiskScore argument: HolderAnalysis
    jeeterMetrics,      \* calculateJeeterRiskScore argument: JeeterMetrics
    riskScoreResult,    \* the number calculateJeeterRiskScore returned
    callCount,          \* calls of calculateJeeterRiskScore made so far
    overallScoreResult, \* result of calculateOverallScore
    clock,              \* Date.now(), in ms
    requests,           \* RateLimiter.requests.get(key): timestamps
    callers,            \* per caller: where its call stands, and its locals
    completed,          \* times at which the latest checkLimit calls returned
    cleanups,           \* number of runs of the cleanup timer
    cache,              \* cache.get(tokenAddress), or no entry
    lastFetched,        \* when a fetch last returned an analysis, or undefined
    lastReturn          \* what the latest call of getTokenTransactions returned

vars == <<pc, currentPrice, micro, structural, outcome, holder, walletScore,
          priceHistory, txAnalysis, holders, tokenInfo, thrown, bundles,
          lpHealth, sellerSignals, zoneFlags, holderAnalysis, jeeterMetrics,
          riskScoreResult, callCount, overallScoreResult, clock, requests,
          callers, completed, cleanups, cache, lastFetched, lastReturn>>

(***************************************************************************)
(* Number helpers                                                          *)
(***************************************************************************)
NaN == 0 - 1000000

isNaN(x) == x = NaN

Max(a, b) == IF a >= b THEN a ELSE b

Min(a, b) == IF a <= b THEN a ELSE b

Abs(a) == IF a < 0 THEN 0 - a ELSE a

\* Math.round of the rational n/d (d > 0): nearest integer, halves go up
Round(n, d) == (2 * n + d) \div (2 * d)

\* Math.max(0, Math.min(100, x))
Clamp100(x) == Max(0, Min(100, x))

(***************************************************************************)
(* PARAMS                                                                  *)
(***************************************************************************)
WeightMicrostructure == 45    \* PARAMS.weights.microstructure, in 1/100

WeightStructural == 45        \* PARAMS.weights.structural, in 1/100

WeightVolatility == 10        \* PARAMS.weights.volatility, in 1/100

ThresholdJeeterRiskScore == 50   \* PARAMS.thresholds.jeeterRiskScore

MicroGoodMin == 60            \* microGood = microScore >= 60

StructuralGoodMin == 55       \* structuralGood = structuralScore >= 55

(***************************************************************************)
(* Layer 3: predictOutcome                                                 *)
(***************************************************************************)
\* isNaN(x) ? 0 : x
NaNToZero(x) == IF isNaN(x) THEN 0 ELSE x

\* a plausible slip: the volatility term without Math.abs
combinedScoreRaw_NoAbs(m, s) ==
    LET microScore == NaNToZero(m.microScore)
        structuralScore == NaNToZero(s.structuralScore)
        volatilityTrendPct == NaNToZero(m.volatilityTrendPct)
    IN  microScore * WeightMicrostructure
        + structuralScore * WeightStructural
        + Max(0, 100 - volatilityTrendPct) * WeightVolatility

\* combinedScoreRaw, in 1/100
combinedScoreRaw(m, s) ==
    LET microScore == NaNToZero(m.microScore)
        structuralScore == NaNToZero(s.structuralScore)
        volatilityTrendPct == NaNToZero(m.volatilityTrendPct)
    IN  microScore * WeightMicrostructure
        + structuralScore * WeightStructural
        + Max(0, 100 - Abs(volatilityTrendPct)) * WeightVolatility

combinedScoreOf(m, s) ==
    LET raw == combinedScoreRaw(m, s)
    IN  IF isNaN(raw) THEN 0 ELSE Clamp100(Round(raw, 100))

\* the four decision branches; each yields the pre-validation fields

\* a plausible slip: the opportunity flag is not cleared in the jeeter branch
JeeterBranch_KeepsOpportunity(price, combinedScore, s) ==
    LET jeeterRisk == IF isNaN(s.jeeterFlags.riskScore)
                      THEN 50 ELSE s.jeeterFlags.riskScore
    IN  [isDipOpportunity |-> NaNToZero(s.structuralScore) >= StructuralGoodMin,
         isDipTrap |-> TRUE,
         dipConfidence |-> Max(combinedScore, jeeterRisk),
         expectedDipDepthPct |-> 200 + Min(400, 5 * jeeterRisk),
         entryZone |-> [min |-> price * 65, max |-> price * 90,
                        optimal |-> price * 80]]

JeeterBranch(price, combinedScore, s) ==
    LET jeeterRisk == IF isNaN(s.jeeterFlags.riskScore)
                      THEN 50 ELSE s.jeeterFlags.riskScore
    IN  [isDipOpportunity |-> FALSE, isDipTrap |-> TRUE,
         dipConfidence |-> Max(combinedScore, jeeterRisk),
         expectedDipDepthPct |-> 200 + Min(400, 5 * jeeterRisk),
         entryZone |-> [min |-> price * 65, max |-> price * 90,
                        optimal |-> price * 80]]

\* a plausible slip: the opportunity branch keeps the initial entry zone
OpportunityBranch_DefaultZone(price, combinedScore, m) ==
    LET vol == IF isNaN(m.volatilityStdDevRecent)
               THEN 0 ELSE m.volatilityStdDevRecent
    IN  [isDipOpportunity |-> TRUE, isDipTrap |-> FALSE,
         dipConfidence |-> Max(combinedScore, 60),
         expectedDipDepthPct |-> 10 * (3 + Max(0, 10 - Round(vol, 10))),
         entryZone |-> [min |-> price * 95, max |-> price * 102,
                        optimal |-> price * 99]]

OpportunityBranch(price, combinedScore, m) ==
    LET vol == IF isNaN(m.volatilityStdDevRecent)
               THEN 0 ELSE m.volatilityStdDevRecent
    IN  [isDipOpportunity |-> TRUE, isDipTrap |-> FALSE,
         dipConfidence |-> Max(combinedScore, 60),
         expectedDipDepthPct |-> 10 * (3 + Max(0, 10 - Round(vol, 10))),
         entryZone |-> [min |-> price * 92, max |-> price * 102,
                        optimal |-> price * 98]]

PoorBranch(price, combinedScore) ==
    [isDipOpportunity |-> FALSE, isDipTrap |-> TRUE,
     dipConfidence |-> Max(combinedScore, 55),
     expectedDipDepthPct |-> 120,
     entryZone |-> [min |-> price * 75, max |-> price * 95,
                    optimal |-> price * 85]]

\* a plausible slip: the mixed branch forgets the 0.7 damping
MixedBranch_NoDamping(price, combinedScore) ==
    [isDipOpportunity |-> FALSE, isDipTrap |-> FALSE,
     dipConfidence |-> combinedScore,
     expectedDipDepthPct |-> 80,
     entryZone |-> [min |-> price * 85, max |-> price * 100,
                    optimal |-> price * 92]]

MixedBranch(price, combinedScore) ==
    [isDipOpportunity |-> FALSE, isDipTrap |-> FALSE,
     dipConfidence |-> Round(combinedScore * 7, 10),
     expectedDipDepthPct |-> 80,
     entryZone |-> [min |-> price * 85, max |-> price * 100,
                    optimal |-> price * 92]]

\* a plausible slip: the good/good test placed before the jeeter test
Decide_OpportunityFirst(price, m, s) ==
    LET microScore == NaNToZero(m.microScore)
        structuralScore == NaNToZero(s.structuralScore)
        combinedScore == combinedScoreOf(m, s)
        isJeeter == s.jeeterFlags.isJeeterZone
        microGood == microScore >= MicroGoodMin
        structuralGood == structuralScore >= StructuralGoodMin
    IN  IF microGood /\ structuralGood
        THEN OpportunityBranch(price, combinedScore, m)
        ELSE IF isJeeter THEN JeeterBranch(price, combinedScore, s)
        ELSE IF ~microGood /\ ~structuralGood
             THEN PoorBranch(price, combinedScore)
        ELSE MixedBranch(price, combinedScore)

Decide(price, m, s) ==
    LET microScore == NaNToZero(m.microScore)
        structuralScore == NaNToZero(s.structuralScore)
        combinedScore == combinedScoreOf(m, s)
        isJeeter == s.jeeterFlags.isJeeterZone
        microGood == microScore >= MicroGoodMin
        structuralGood == structuralScore >= StructuralGoodMin
    IN  IF isJeeter THEN JeeterBranch(price, combinedScore, s)
        ELSE IF microGood /\ structuralGood
             THEN OpportunityBranch(price, combinedScore, m)
        ELSE IF ~microGood /\ ~structuralGood
             THEN PoorBranch(price, combinedScore)
        ELSE MixedBranch(price, combinedScore)

\* a plausible slip: the low level granted from a combined score of 60
riskLevelOf_LowAboveSixty(combinedScore, s) ==
    LET isJeeter == s.jeeterFlags.isJeeterZone
        risk == s.jeeterFlags.riskScore
    IN  IF isJeeter \/ (~isNaN(risk) /\ risk > ThresholdJeeterRiskScore)
        THEN "high"
        ELSE IF combinedScore > 60 /\ ~isJeeter THEN "low"
        ELSE "medium"

\* a plausible slip: the danger-zone flag left out of the high test
riskLevelOf_ScoreOnly(combinedScore, s) ==
    LET isJeeter == s.jeeterFlags.isJeeterZone
        risk == s.jeeterFlags.riskScore
    IN  IF ~isNaN(risk) /\ risk > ThresholdJeeterRiskScore
        THEN "high"
        ELSE IF combinedScore > 70 /\ ~isJeeter THEN "low"
        ELSE "medium"

\* a plausible slip: >= instead of > on the risk score threshold
riskLevelOf_AtLeast(combinedScore, s) ==
    LET isJeeter == s.jeeterFlags.isJeeterZone
        risk == s.jeeterFlags.riskScore
    IN  IF isJeeter \/ (~isNaN(risk) /\ risk >= ThresholdJeeterRiskScore)
        THEN "high"
        ELSE IF combinedScore > 70 /\ ~isJeeter THEN "low"
        ELSE "medium"

\* NaN > 50 is false
riskLevelOf(combinedScore, s) ==
    LET isJeeter == s.jeeterFlags.isJeeterZone
        risk == s.jeeterFlags.riskScore
    IN  IF isJeeter \/ (~isNaN(risk) /\ risk > ThresholdJeeterRiskScore)
        THEN "high"
        ELSE IF combinedScore > 70 /\ ~isJeeter THEN "low"
        ELSE "medium"

\* a plausible slip: the final validation without the clamp
finalDipConfidence_NoClamp(dipConfidence) ==
    IF isNaN(dipConfidence) THEN 0 ELSE dipConfidence

\* a plausible slip: an out-of-range confidence is zeroed, not clamped
finalDipConfidence_ZeroOutOfRange(dipConfidence) ==
    IF isNaN(dipConfidence) \/ dipConfidence > 100 \/ dipConfidence < 0
    THEN 0 ELSE dipConfidence

\* dipConfidence is an integer in every branch, so Math.round leaves it
finalDipConfidence(dipConfidence) ==
    IF isNaN(dipConfidence) THEN 0 ELSE Clamp100(dipConfidence)

\* in 1/10
finalExpectedDipDepth(expectedDipDepthPct) ==
    IF isNaN(expectedDipDepthPct) THEN 0
    ELSE Max(0, Min(1000, expectedDipDepthPct))

predictOutcome(price, m, s) ==
    LET d == Decide(price, m, s)
        combinedScore == combinedScoreOf(m, s)
    IN  [isDipOpportunity |-> d.isDipOpportunity,
         isDipTrap |-> d.isDipTrap,
         dipConfidence |-> finalDipConfidence(d.dipConfidence),
         expectedDipDepthPct |-> finalExpectedDipDepth(d.expectedDipDepthPct),
         entryZone |-> d.entryZone,
         combinedScore |-> combinedScore,
         riskLevel |-> riskLevelOf(combinedScore, s)]

(***************************************************************************)
(* Inputs of the predictOutcome specification                              *)
(***************************************************************************)
MaxOver == 20    \* how far a score input may lie outside its 0..100 range

ScoreInputs == {NaN, 0 - MaxOver, 0, 30, 54, 55, 59, 60, 61, 83, 100,
                100 + MaxOver}

RiskInputs == {NaN, 0, 21, 49, 50, 51, 79, 100, 100 + MaxOver, 200}

VolTrendInputs == {NaN, 0 - 100 - MaxOver, -55, 0, 30, 100}

VolRecentInputs == {NaN, 0, 24, 25, 120}

PriceInputs == {2, 5}

NoOutcome == [isDipOpportunity |-> FALSE, isDipTrap |-> FALSE,
              dipConfidence |-> 0, expectedDipDepthPct |-> 0,
              entryZone |-> [min |-> 0, max |-> 0, optimal |-> 0],
              combinedScore |-> 0, riskLevel |-> "medium"]

NoMicro == [microScore |-> 0, volatilityTrendPct |-> 0,
            volatilityStdDevRecent |-> 0]

NoStructural == [structuralScore |-> 0,
                 jeeterFlags |-> [isJeeterZone |-> FALSE, riskScore |-> 0]]

NoHolder == [percentage |-> 0]

NoWalletScore == [category |-> "unknown", score |-> 50, confidence |-> 0]

NoTx == [buySellRatio |-> 50]

NoToken == [liquidity |-> 0, marketCap |-> 0]

NoLPHealth == [healthScore |-> 0, isHealthy |-> FALSE]

NoExhaustion == [exhaustionScore |-> 0, isBottomSignal |-> FALSE]

NoZoneFlags == [riskScore |-> 0, isJeeterZone |-> FALSE]

NoHolderAnalysis == [totalHolders |-> 0]

NoJeeterMetrics == [averageHoldTime |-> 0]

\* no cache entry for the token: the fields are undefined
NoCacheEntry == [data |-> 0 - 1, timestamp |-> 0 - 1]

\* no call of getTokenTransactions has returned yet
NoReturn == [from |-> "none", data |-> 0 - 1, cachedAt |-> 0 - 1, at |-> 0]

InitPredict ==
    /\ pc = "call"
    /\ currentPrice \in PriceInputs
    /\ micro \in [microScore : ScoreInputs,
                  volatilityTrendPct : VolTrendInputs,
                  volatilityStdDevRecent : VolRecentInputs]
    /\ structural \in [structuralScore : ScoreInputs,
                       jeeterFlags : [isJeeterZone : BOOLEAN,
                                      riskScore : RiskInputs]]
    /\ outcome = NoOutcome
    /\ holder = NoHolder
    /\ walletScore = NoWalletScore
    /\ priceHistory = <<>>
    /\ txAnalysis = NoTx
    /\ holders = <<>>
    /\ tokenInfo = NoToken
    /\ thrown = FALSE
    /\ bundles = <<>>
    /\ lpHealth = NoLPHealth
    /\ sellerSignals = NoExhaustion
    /\ zoneFlags = NoZoneFlags
    /\ holderAnalysis = NoHolderAnalysis
    /\ jeeterMetrics = NoJeeterMetrics
    /\ riskScoreResult = 0
    /\ callCount = 0
    /\ overallScoreResult = 0
    /\ clock = 0
    /\ requests = <<>>
    /\ callers = <<>>
    /\ completed = <<>>
    /\ cleanups = 0
    /\ cache = NoCacheEntry
    /\ lastFetched = 0 - 1
    /\ lastReturn = NoReturn

PredictOutcome ==
    /\ pc = "call"
    /\ outcome' = predictOutcome(currentPrice, micro, structural)
    /\ pc' = "done"
    /\ UNCHANGED <<currentPrice, micro, structural, holder, walletScore,
                   priceHistory, txAnalysis, holders, tokenInfo, thrown,
                   bundles, lpHealth, sellerSignals, zoneFlags,
                   holderAnalysis, jeeterMetrics, riskScoreResult, callCount,
                   overallScoreResult, clock, requests, callers, completed,
                   cleanups, cache, lastFetched, lastReturn>>

NextPredict == PredictOutcome

Spec == InitPredict /\ [][NextPredict]_vars

(***************************************************************************)
(* WalletQualityAnalyzer.classifyWallet                                    *)
(*                                                                         *)
(* A HolderInfo is a record                                                *)
(*   percentage        percent of supply, in 1/10 percent                  *)
(*   balance           token balance                                       *)
(*   averageHoldTime   minutes, or undefined                               *)
(*   transactionCount  a count, or undefined                               *)
(*   jeeterScore       0..100, or undefined                                *)
(*   isJeeter          TRUE, or FALSE (an absent flag reads as false in    *)
(*                     every place the code reads it)                      *)
(*   buyTransactions, sellTransactions                                     *)
(*                     the sequence of the timestamps (seconds) of the     *)
(*                     transactions, or undefinedList                      *)
(***************************************************************************)
undefined == 0 - 1

undefinedList == << 0 - 1 >>

\* truthiness of an optional number: defined and not 0
Truthy(x) == x # undefined /\ x # 0

IsDefinedList(l) == l # undefinedList

\* sellCount / buyCount < n/d ; x/0 is Infinity or NaN, never below a bound
RatioBelow(sellCount, buyCount, n, d) ==
    buyCount > 0 /\ sellCount * d < n * buyCount

\* sellCount / buyCount > n/d ; k/0 is Infinity for k > 0, 0/0 is NaN
RatioAbove(sellCount, buyCount, n, d) ==
    IF buyCount = 0 THEN sellCount > 0 ELSE sellCount * d > n * buyCount

QuickRoundTripWindow == 120    \* 2 * 60 * 1000 ms, in seconds

quickRoundTrips(h) ==
    { i \in 1..Len(h.buyTransactions) :
        \E j \in 1..Len(h.sellTransactions) :
            /\ h.sellTransactions[j] > h.buyTransactions[i]
            /\ h.sellTransactions[j] - h.buyTransactions[i]
                 < QuickRoundTripWindow }

isSniper(h) ==
    \/ /\ h.averageHoldTime # undefined
       /\ h.averageHoldTime < 5
       /\ Truthy(h.transactionCount)
       /\ h.transactionCount > 10
    \/ /\ IsDefinedList(h.buyTransactions)
       /\ IsDefinedList(h.sellTransactions)
       /\ Cardinality(quickRoundTrips(h)) > 3

isJeeterHolder(h) ==
    h.isJeeter \/ (Truthy(h.jeeterScore) /\ h.jeeterScore > 50)

isMEVBot(h) ==
    \/ Truthy(h.transactionCount) /\ h.transactionCount > 50
    \/ /\ IsDefinedList(h.buyTransactions)
       /\ Len(h.buyTransactions) > 20
       /\ h.averageHoldTime # undefined
       /\ h.averageHoldTime < 1

isWhale(h) == h.percentage > 50

isStrongHands(h) ==
    \/ /\ h.averageHoldTime # undefined
       /\ h.averageHoldTime > 120
       /\ IsDefinedList(h.sellTransactions)
       /\ IsDefinedList(h.buyTransactions)
       /\ RatioBelow(Len(h.sellTransactions), Len(h.buyTransactions), 3, 10)
    \/ /\ h.averageHoldTime # undefined
       /\ h.averageHoldTime > 60
       /\ (~IsDefinedList(h.sellTransactions) \/ Len(h.sellTransactions) = 0)

isWeakHands(h) ==
    /\ h.averageHoldTime # undefined
    /\ h.averageHoldTime < 30
    /\ IsDefinedList(h.sellTransactions)
    /\ IsDefinedList(h.buyTransactions)
    /\ RatioAbove(Len(h.sellTransactions), Len(h.buyTransactions), 7, 10)

whaleScore(h) ==
    IF Truthy(h.averageHoldTime) /\ h.averageHoldTime > 60 THEN 85
    ELSE IF Truthy(h.averageHoldTime) /\ h.averageHoldTime < 10 THEN 40
    ELSE 70

\* a plausible slip: the jeeter rule placed before the sniper rule
classifyWallet_JeeterFirst(h) ==
    IF isJeeterHolder(h)
    THEN [category |-> "jeeter", score |-> 10, confidence |-> 80]
    ELSE IF isSniper(h)
    THEN [category |-> "sniper", score |-> 20, confidence |-> 70]
    ELSE IF isMEVBot(h)
    THEN [category |-> "mev_bot", score |-> 15, confidence |-> 60]
    ELSE IF isWhale(h)
    THEN [category |-> "whale", score |-> whaleScore(h), confidence |-> 80]
    ELSE IF isStrongHands(h)
    THEN [category |-> "strong_hands", score |-> 80, confidence |-> 75]
    ELSE IF isWeakHands(h)
    THEN [category |-> "weak_hands", score |-> 30, confidence |-> 70]
    ELSE [category |-> "unknown", score |-> 50, confidence |-> 30]

classifyWallet(h) ==
    IF isSniper(h)
    THEN [category |-> "sniper", score |-> 20, confidence |-> 70]
    ELSE IF isJeeterHolder(h)
    THEN [category |-> "jeeter", score |-> 10, confidence |-> 80]
    ELSE IF isMEVBot(h)
    THEN [category |-> "mev_bot", score |-> 15, confidence |-> 60]
    ELSE IF isWhale(h)
    THEN [category |-> "whale", score |-> whaleScore(h), confidence |-> 80]
    ELSE IF isStrongHands(h)
    THEN [category |-> "strong_hands", score |-> 80, confidence |-> 75]
    ELSE IF isWeakHands(h)
    THEN [category |-> "weak_hands", score |-> 30, confidence |-> 70]
    ELSE [category |-> "unknown", score |-> 50, confidence |-> 30]

WalletCategories == {"sniper", "jeeter", "weak_hands", "strong_hands",
                     "whale", "mev_bot", "router_arbitrage_bot", "unknown"}

(***************************************************************************)
(* Inputs of the classifyWallet specification                              *)
(***************************************************************************)
MaxRoundTrips == 4    \* length of the short transaction lists

MaxBuys == 21         \* length of the long buy list

\* n timestamps, the first at t0, gap seconds apart
Spaced(n, t0, gap) == [i \in 1..n |-> t0 + (i - 1) * gap]

\* a holder of balance 1000 without a jeeter score
MkHolder(pct, hold, txCount, jeeter, buys, sells) ==
    [percentage |-> pct, balance |-> 1000, averageHoldTime |-> hold,
     transactionCount |-> txCount, jeeterScore |-> undefined,
     isJeeter |-> jeeter, buyTransactions |-> buys,
     sellTransactions |-> sells]

BuyListInputs == {undefinedList, <<>>, Spaced(1, 0, 600),
                  Spaced(MaxRoundTrips, 0, 600), Spaced(MaxBuys, 0, 600)}

\* sells 60 s after each buy (quick), 300 s after each buy (slow), one sell
SellListInputs == {undefinedList, <<>>, Spaced(1, 300, 600),
                   Spaced(MaxRoundTrips, 60, 600),
                   Spaced(MaxRoundTrips, 300, 600)}

HolderInputs ==
    [percentage : {5, 10, 50, 51, 80},
     balance : {1000},
     averageHoldTime : {undefined, 0, 3, 5, 8, 20, 61, 121},
     transactionCount : {undefined, 0, 10, 15, 50, 51},
     jeeterScore : {undefined, 50, 51},
     isJeeter : BOOLEAN,
     buyTransactions : BuyListInputs,
     sellTransactions : SellListInputs]

InitClassify ==
    /\ pc = "call"
    /\ holder \in HolderInputs
    /\ walletScore = NoWalletScore
    /\ currentPrice = 0
    /\ micro = NoMicro
    /\ structural = NoStructural
    /\ outcome = NoOutcome
    /\ priceHistory = <<>>
    /\ txAnalysis = NoTx
    /\ holders = <<>>
    /\ tokenInfo = NoToken
    /\ thrown = FALSE
    /\ bundles = <<>>
    /\ lpHealth = NoLPHealth
    /\ sellerSignals = NoExhaustion
    /\ zoneFlags = NoZoneFlags
    /\ holderAnalysis = NoHolderAnalysis
    /\ jeeterMetrics = NoJeeterMetrics
    /\ riskScoreResult = 0
    /\ callCount = 0
    /\ overallScoreResult = 0
    /\ clock = 0
    /\ requests = <<>>
    /\ callers = <<>>
    /\ completed = <<>>
    /\ cleanups = 0
    /\ cache = NoCacheEntry
    /\ lastFetched = 0 - 1
    /\ lastReturn = NoReturn

ClassifyWallet ==
    /\ pc = "call"
    /\ walletScore' = classifyWallet(holder)
    /\ pc' = "done"
    /\ UNCHANGED <<currentPrice, micro, structural, outcome, holder,
                   priceHistory, txAnalysis, holders, tokenInfo, thrown,
                   bundles, lpHealth, sellerSignals, zoneFlags,
                   holderAnalysis, jeeterMetrics, riskScoreResult, callCount,
                   overallScoreResult, clock, requests, callers, completed,
                   cleanups, cache, lastFetched, lastReturn>>

NextClassify == ClassifyWallet

SpecClassify == InitClassify /\ [][NextClassify]_vars


(***************************************************************************)
(* Rationals and sequences                                                 *)
(*                                                                         *)
(* A quotient the code keeps as a number is kept here as a record          *)
(* [num, den] with den > 0.                                                *)
(***************************************************************************)
Rat(n, d) == [num |-> n, den |-> d]

RECURSIVE SumSeq(_)
SumSeq(q) == IF q = <<>> THEN 0 ELSE Head(q) + SumSeq(Tail(q))

RECURSIVE ProductSeq(_)
ProductSeq(q) == IF q = <<>> THEN 1 ELSE Head(q) * ProductSeq(Tail(q))

\* the largest j in lo..hi with j * j <= n (lo * lo <= n is given)
RECURSIVE ISqrtIn(_, _, _)
ISqrtIn(n, lo, hi) ==
    IF lo >= hi THEN lo
    ELSE LET mid == (lo + hi + 1) \div 2
         IN  IF mid * mid <= n THEN ISqrtIn(n, mid, hi)
             ELSE ISqrtIn(n, lo, mid - 1)

\* floor(Math.sqrt(n)) for 0 <= n <= 10^8
ISqrt(n) == ISqrtIn(n, 0, 10000)

\* floor(10^6 * v / w), by long division in two steps of 1000
MillionTimes(v, w) ==
    LET q == v \div w
        r1 == v % w
        a == (1000 * r1) \div w
        r2 == (1000 * r1) % w
        b == (1000 * r2) \div w
    IN  1000000 * q + 1000 * a + b

RECURSIVE Gcd(_, _)
Gcd(a, b) == IF b = 0 THEN a ELSE Gcd(b, a % b)

Lcm(a, b) == (a \div Gcd(a, b)) * b

RECURSIVE GcdSeq(_)
GcdSeq(q) == IF q = <<>> THEN 0 ELSE Gcd(Head(q), GcdSeq(Tail(q)))

RECURSIVE LcmSeq(_)
LcmSeq(q) == IF q = <<>> THEN 1 ELSE Lcm(Head(q), LcmSeq(Tail(q)))

\* the quotient r in lowest terms
Reduce(r) == LET g == Gcd(r.num, r.den)
             IN  IF g = 0 THEN r ELSE Rat(r.num \div g, r.den \div g)

\* array.slice(-n)
LastN(q, n) == IF Len(q) >= n THEN SubSeq(q, Len(q) - n + 1, Len(q)) ELSE q

(***************************************************************************)
(* Layer 1: computeMicrostructureSignals                                   *)
(*                                                                         *)
(* Prices are positive integers.  Ratios of the TransactionAnalysis are    *)
(* in 1/100; volatilityStdDevRecent is in 1/1000, rounded down;            *)
(* volatilityTrendPct is in 1/100.                                         *)
(***************************************************************************)
VolatilityCompressionPct == 0 - 15   \* PARAMS.thresholds.volatilityCompressionPct

VolatilityCollapseStdDev == 30       \* PARAMS.thresholds.volatilityCollapseStdDev

\* Math.max(1e-12, prices[i - 1]): a price 0 is replaced by 10^-12, so the
\* change that leaves a price 0 is the next price times 10^12.  A change is
\* kept in two parts: flooredChanges[i] counts its multiples of 10^12, and
\* changeNumerators[i] / priceDenominator is the rest.
flooredChanges(prices) ==
    [i \in 1..(Len(prices) - 1) |->
        IF prices[i] = 0 THEN prices[i + 1] ELSE 0]

\* a common denominator of the changes that leave a positive price
priceDenominator(prices) ==
    LcmSeq([i \in 1..(Len(prices) - 1) |->
               IF prices[i] = 0 THEN 1 ELSE prices[i]])

changeNumerators(prices) ==
    LET D == priceDenominator(prices)
    IN  [i \in 1..(Len(prices) - 1) |->
            IF prices[i] = 0 THEN 0
            ELSE (prices[i + 1] - prices[i]) * (D \div prices[i])]

\* the variance of the values nums[i] / D, as the quotient v / w
varianceOf(nums, D) ==
    LET k == Len(nums)
        S == SumSeq(nums)
        sq == [i \in 1..k |-> (k * nums[i] - S) * (k * nums[i] - S)]
    IN  Rat(SumSeq(sq), D * D * k * k * k)

\* a deviation no comparison or clamp of the code tells from any other
\* deviation above 10, in 1/1000
DeviationAboveTen == 10001

\* stdDevRelativeChanges, in 1/1000 rounded down.  When the changes differ
\* in their multiples of 10^12, one of them is at least 10^12 / 60 away from
\* the mean of at most 60 changes, and the deviation is far above 10.
stdDevRelativeChanges(prices) ==
    IF Len(prices) < 2 THEN 0
    ELSE LET floored == flooredChanges(prices)
         IN  IF \E i, j \in 1..Len(floored) : floored[i] # floored[j]
             THEN DeviationAboveTen
             ELSE LET var == Reduce(varianceOf(changeNumerators(prices),
                                               priceDenominator(prices)))
                  IN  ISqrt(MillionTimes(var.num, var.den))

\* a plausible slip: the quotient returned without the clamp
momentum_NoClamp(samples) ==
    IF Len(samples) < 2 THEN Rat(0, 1)
    ELSE LET last == samples[Len(samples)]
             first == samples[1]
         IN  IF first = 0 THEN Rat(0, 1)
             ELSE Rat(last - first, first)

\* the momentum closure: (last - first) / first clamped to [-10, 10]
momentum(samples) ==
    IF Len(samples) < 2 THEN Rat(0, 1)
    ELSE LET last == samples[Len(samples)]
             first == samples[1]
         IN  IF first = 0 THEN Rat(0, 1)
             ELSE IF last - first > 10 * first THEN Rat(10, 1)
             ELSE IF last - first < (0 - 10) * first THEN Rat(0 - 10, 1)
             ELSE Rat(last - first, first)

\* Math.max(0, Math.min(10, vol)), vol in 1/1000
clampVolatility(vol) == Max(0, Min(10000, vol))

\* the earlier window: slice(-60, -30) or slice(0, -30)
earlierWindow(prices) ==
    IF Len(prices) > 60 THEN SubSeq(prices, Len(prices) - 59, Len(prices) - 30)
    ELSE SubSeq(prices, 1, Len(prices) - 30)

\* in 1/100, rounded down; 0 if the earlier volatility is 0
volatilityTrendPctOf(recentVol, earlierVol) ==
    IF earlierVol = 0 THEN 0
    ELSE Max(0 - 100,
             Min(100, (100 * (recentVol - earlierVol))
                          \div Max(earlierVol, 10)))

\* x ?? d
Nullish(x, d) == IF x = undefined THEN d ELSE x

botActivityIndexOf(tx) ==
    LET txPerMin == Nullish(tx.transactionsPerMinute, 0)
        avgTxSize == Nullish(tx.averageTransactionSize, 0)
        smallTx == IF avgTxSize < 100 THEN 25 ELSE 0
        mev == IF tx.mevPatterns.detected
               THEN Min(tx.mevPatterns.score, 25) ELSE 0
    IN  Min(100, Round(Max(0, 50 * txPerMin + 30 * (smallTx + mev)), 30))

computeMicrostructureSignals(prices, tx) ==
    LET n == Len(prices)
        m5 == momentum(LastN(prices, Max(2, Min(5, n))))
        m15 == momentum(LastN(prices, Max(3, Min(15, n))))
        m60 == momentum(LastN(prices, Max(5, Min(60, n))))
        bsr5 == Nullish(tx.buySellRatio5m, Nullish(tx.buySellRatio, 50))
        bsr15 == Nullish(tx.buySellRatio15m, Nullish(tx.buySellRatio, 50))
        bsr60 == Nullish(tx.buySellRatio1h, Nullish(tx.buySellRatio, 50))
        buySellDelta15s == bsr15 - bsr60
        volRecent == clampVolatility(stdDevRelativeChanges(LastN(prices, 30)))
        earlierVol == clampVolatility(
                          stdDevRelativeChanges(earlierWindow(prices)))
        volTrend == volatilityTrendPctOf(volRecent, earlierVol)
        bot == botActivityIndexOf(tx)
        \* Math.round(-m60 * 50 + (m15 - m60) * 100)
        momentumTerm == Round(100 * m15.num * m60.den - 150 * m60.num * m15.den,
                              m15.den * m60.den)
        volTerm == IF volTrend < VolatilityCompressionPct THEN 15
                   ELSE IF volRecent < VolatilityCollapseStdDev THEN 10
                   ELSE 0 - 10
        liquidityVelocity == 0
        raw == 50
               + Max(0 - 20, Min(20, buySellDelta15s))
               + Max(0 - 15, Min(15, momentumTerm))
               + volTerm
               - Round(bot * 20, 100)
               + Max(0 - 10, Min(10, liquidityVelocity * 100))
    IN  [momentum5s |-> m5, momentum15s |-> m15, momentum60s |-> m60,
         buySellDelta5s |-> bsr5 - bsr15,
         buySellDelta15s |-> buySellDelta15s,
         buySellDelta60s |-> bsr60 - Nullish(tx.buySellRatio, 50),
         volatilityStdDevRecent |-> volRecent,
         volatilityTrendPct |-> volTrend,
         botActivityIndex |-> bot,
         liquidityVelocity |-> liquidityVelocity,
         microScore |-> Clamp100(raw)]


(***************************************************************************)
(* LPHealthAnalyzer.analyze                                                *)
(* tokenInfo.liquidity and tokenInfo.marketCap are USD amounts or undefined*)
(***************************************************************************)
\* x || 0
OrZero(x) == IF Truthy(x) THEN x ELSE 0

\* a plausible slip: healthy only above 60
analyzeLPHealth_HealthyAbove(token) ==
    LET liquidity == OrZero(token.liquidity)
        marketCap == OrZero(token.marketCap)
        lpRatio == IF marketCap > 0 THEN Rat(liquidity, marketCap)
                   ELSE Rat(0, 1)
        afterAmount == IF liquidity < 5000 THEN 100 - 40
                       ELSE IF liquidity < 10000 THEN 100 - 20
                       ELSE IF liquidity < 50000 THEN 100 - 10
                       ELSE 100
        afterRatio ==
            IF lpRatio.num > 0
            THEN IF 100 * lpRatio.num < 5 * lpRatio.den THEN afterAmount - 30
                 ELSE IF 10 * lpRatio.num < lpRatio.den THEN afterAmount - 15
                 ELSE IF 2 * lpRatio.num > lpRatio.den THEN afterAmount - 10
                 ELSE afterAmount
            ELSE afterAmount
        score == IF marketCap > 0 /\ liquidity = 0 THEN 0 ELSE afterRatio
        healthScore == Clamp100(score)
    IN  [liquidityAmount |-> liquidity,
         liquidityStability |-> "stable",
         lpRatio |-> lpRatio,
         isHealthy |-> healthScore > 60,
         healthScore |-> healthScore]

analyzeLPHealth(token) ==
    LET liquidity == OrZero(token.liquidity)
        marketCap == OrZero(token.marketCap)
        lpRatio == IF marketCap > 0 THEN Rat(liquidity, marketCap)
                   ELSE Rat(0, 1)
        afterAmount == IF liquidity < 5000 THEN 100 - 40
                       ELSE IF liquidity < 10000 THEN 100 - 20
                       ELSE IF liquidity < 50000 THEN 100 - 10
                       ELSE 100
        afterRatio ==
            IF lpRatio.num > 0
            THEN IF 100 * lpRatio.num < 5 * lpRatio.den THEN afterAmount - 30
                 ELSE IF 10 * lpRatio.num < lpRatio.den THEN afterAmount - 15
                 ELSE IF 2 * lpRatio.num > lpRatio.den THEN afterAmount - 10
                 ELSE afterAmount
            ELSE afterAmount
        score == IF marketCap > 0 /\ liquidity = 0 THEN 0 ELSE afterRatio
        healthScore == Clamp100(score)
    IN  [liquidityAmount |-> liquidity,
         liquidityStability |-> "stable",
         lpRatio |-> lpRatio,
         isHealthy |-> healthScore >= 60,
         healthScore |-> healthScore]

\* liquidity and market cap around every threshold of the analyzer
LiquidityInputs == {undefined, 0, 3000, 4999, 5000, 9999, 10000, 49999,
                    50000, 60000}

MarketCapInputs == {undefined, 0, 8000, 20000, 60000, 100000, 120000,
                    200000, 1000000, 1200000}

LPTokenInputs == [liquidity : LiquidityInputs, marketCap : MarketCapInputs]

InitLP ==
    /\ pc = "call"
    /\ tokenInfo \in LPTokenInputs
    /\ lpHealth = NoLPHealth
    /\ bundles = <<>>
    /\ holders = <<>>
    /\ holder = NoHolder
    /\ walletScore = NoWalletScore
    /\ currentPrice = 0
    /\ micro = NoMicro
    /\ structural = NoStructural
    /\ outcome = NoOutcome
    /\ priceHistory = <<>>
    /\ txAnalysis = NoTx
    /\ thrown = FALSE
    /\ sellerSignals = NoExhaustion
    /\ zoneFlags = NoZoneFlags
    /\ holderAnalysis = NoHolderAnalysis
    /\ jeeterMetrics = NoJeeterMetrics
    /\ riskScoreResult = 0
    /\ callCount = 0
    /\ overallScoreResult = 0
    /\ clock = 0
    /\ requests = <<>>
    /\ callers = <<>>
    /\ completed = <<>>
    /\ cleanups = 0
    /\ cache = NoCacheEntry
    /\ lastFetched = 0 - 1
    /\ lastReturn = NoReturn

AnalyzeLPHealth ==
    /\ pc = "call"
    /\ lpHealth' = analyzeLPHealth(tokenInfo)
    /\ pc' = "done"
    /\ UNCHANGED <<currentPrice, micro, structural, outcome, holder,
                   walletScore, priceHistory, txAnalysis, holders, tokenInfo,
                   thrown, bundles, sellerSignals, zoneFlags, holderAnalysis,
                   jeeterMetrics, riskScoreResult, callCount,
                   overallScoreResult, clock, requests, callers, completed,
                   cleanups, cache, lastFetched, lastReturn>>

NextLP == AnalyzeLPHealth

SpecLP == InitLP /\ [][NextLP]_vars

(***************************************************************************)
(* SellerExhaustionAnalyzer.analyze                                        *)
(***************************************************************************)
\* the numerators of the absolute relative changes over the common
\* denominator LcmSeq of the prices but the last
absChangeNumerators(prices) ==
    LET D == LcmSeq(SubSeq(prices, 1, Len(prices) - 1))
    IN  [i \in 1..(Len(prices) - 1) |->
            Abs(prices[i + 1] - prices[i]) * (D \div prices[i])]

\* a plausible slip: 0 for a series of fewer than 2 points
priceVolatilitySquared_ZeroWhenShort(prices) ==
    IF Len(prices) < 2 THEN Rat(0, 1)
    ELSE LET D == LcmSeq(SubSeq(prices, 1, Len(prices) - 1))
             nums == absChangeNumerators(prices)
             g == Gcd(GcdSeq(nums), D)
         IN  Reduce(varianceOf([i \in 1..Len(nums) |-> nums[i] \div g],
                               D \div g))

\* the square of calculatePriceVolatility, as a quotient in lowest terms
priceVolatilitySquared(prices) ==
    IF Len(prices) < 2 THEN Rat(1, 1)
    ELSE LET D == LcmSeq(SubSeq(prices, 1, Len(prices) - 1))
             nums == absChangeNumerators(prices)
             \* a common factor of the numerators and the denominator
             g == Gcd(GcdSeq(nums), D)
         IN  Reduce(varianceOf([i \in 1..Len(nums) |-> nums[i] \div g],
                               D \div g))

\* calculateVolatilityTrend(priceHistory) < -0.2
volatilityTrendBelowCollapse(prices) ==
    IF Len(prices) < 10 THEN FALSE
    ELSE LET midPoint == Len(prices) \div 2
             recent == priceVolatilitySquared(
                           SubSeq(prices, midPoint + 1, Len(prices)))
             earlier == priceVolatilitySquared(SubSeq(prices, 1, midPoint))
         IN  IF earlier.num = 0 THEN FALSE
             \* (r - e) / e < -0.2  iff  r < 0.8 e  iff  r^2 < 0.64 e^2
             ELSE 100 * recent.num * earlier.den
                      < 64 * earlier.num * recent.den

\* a plausible slip: the additive score alone sets the bottom signal
isBottomSignalOf_ScoreOnly(score, tightRange, dominanceCollapse, mevOff) ==
    score >= 60

\* the arguments are exhaustionScore, tightPriceRange,
\* sellerDominanceCollapse and mevInactivity
isBottomSignalOf(score, tightRange, dominanceCollapse, mevOff) ==
    /\ score >= 60
    /\ tightRange
    /\ dominanceCollapse
    /\ mevOff

analyzeSellerExhaustion(tx, prices) ==
    LET \* estimateSellVolume15m < sellVolume * 0.3, both sides times 10000
        decreasingSellVolume ==
            tx.totalVolume * 25 * (100 - tx.buySellRatio15m)
                < tx.sellVolume * 3000
        decreasingSellFrequency ==
            /\ 2 * tx.largeSellCount < tx.largeBuyCount
            /\ tx.largeSellCount < 3
        sellerDominanceCollapse == tx.buySellRatio > 60
        finalLargeSellerExit ==
            tx.largeSellCount > 0 /\ tx.largeSellCount <= 2
        mevInactivity ==
            ~tx.mevPatterns.detected \/ tx.mevPatterns.score < 20
        vol == priceVolatilitySquared(prices)
        \* priceVolatility < 0.05, that is 400 vol.num < vol.den
        tightPriceRange == vol.num <= (vol.den - 1) \div 400
        volatilityCollapse == volatilityTrendBelowCollapse(prices)
        exhaustionScore ==
            (IF decreasingSellVolume THEN 20 ELSE 0)
            + (IF decreasingSellFrequency THEN 15 ELSE 0)
            + (IF sellerDominanceCollapse THEN 20 ELSE 0)
            + (IF finalLargeSellerExit THEN 15 ELSE 0)
            + (IF mevInactivity THEN 10 ELSE 0)
            + (IF tightPriceRange THEN 10 ELSE 0)
            + (IF volatilityCollapse THEN 10 ELSE 0)
    IN  [decreasingSellVolume |-> decreasingSellVolume,
         decreasingSellFrequency |-> decreasingSellFrequency,
         sellerDominanceCollapse |-> sellerDominanceCollapse,
         finalLargeSellerExit |-> finalLargeSellerExit,
         mevInactivity |-> mevInactivity,
         tightPriceRange |-> tightPriceRange,
         volatilityCollapse |-> volatilityCollapse,
         exhaustionScore |-> exhaustionScore,
         isBottomSignal |->
             isBottomSignalOf(exhaustionScore, tightPriceRange,
                              sellerDominanceCollapse, mevInactivity)]

\* the inputs of the SellerExhaustionAnalyzer specification
HalfLen == 5    \* length of each half of the long price series

\* n prices, all p
Flat(n, p) == [i \in 1..n |-> p]

\* n prices 1, 1, k, k, k^2, k^2, ...: the absolute relative changes are
\* 0 and k - 1 in turn
Steps(n, k) == [i \in 1..n |-> k ^ ((i - 1) \div 2)]

\* n prices 10, 11, 10, 11, ...
Ripple(n) == [i \in 1..n |-> IF i % 2 = 1 THEN 10 ELSE 11]

\* short series, and long series whose recent half is as volatile as the
\* earlier half, exactly 0.8 times, 0.6 times as volatile, flat after a
\* ripple, and flat throughout
ExhaustionPriceInputs ==
    {<<>>, <<1>>, <<1, 2>>, <<2, 2, 2>>,
     Steps(HalfLen, 6) \o Steps(HalfLen, 6),
     Steps(HalfLen, 6) \o Steps(HalfLen, 5),
     Steps(HalfLen, 6) \o Steps(HalfLen, 4),
     Ripple(HalfLen) \o Flat(HalfLen, 10),
     Flat(HalfLen, 3) \o Ripple(HalfLen),
     Flat(2 * HalfLen, 7)}

ExhaustionTxInputs ==
    [buySellRatio : {60, 61},
     buySellRatio15m : {40, 41},
     sellVolume : {0, 1000},
     totalVolume : {2000},
     largeSellCount : {0, 1, 2, 3},
     largeBuyCount : {2, 5},
     mevPatterns : {[detected |-> FALSE, score |-> 60],
                    [detected |-> TRUE, score |-> 19],
                    [detected |-> TRUE, score |-> 20]}]

InitExhaustion ==
    /\ pc = "call"
    /\ txAnalysis \in ExhaustionTxInputs
    /\ priceHistory \in ExhaustionPriceInputs
    /\ sellerSignals = NoExhaustion
    /\ lpHealth = NoLPHealth
    /\ tokenInfo = NoToken
    /\ bundles = <<>>
    /\ holders = <<>>
    /\ holder = NoHolder
    /\ walletScore = NoWalletScore
    /\ currentPrice = 0
    /\ micro = NoMicro
    /\ structural = NoStructural
    /\ outcome = NoOutcome
    /\ thrown = FALSE
    /\ zoneFlags = NoZoneFlags
    /\ holderAnalysis = NoHolderAnalysis
    /\ jeeterMetrics = NoJeeterMetrics
    /\ riskScoreResult = 0
    /\ callCount = 0
    /\ overallScoreResult = 0
    /\ clock = 0
    /\ requests = <<>>
    /\ callers = <<>>
    /\ completed = <<>>
    /\ cleanups = 0
    /\ cache = NoCacheEntry
    /\ lastFetched = 0 - 1
    /\ lastReturn = NoReturn

AnalyzeSellerExhaustion ==
    /\ pc = "call"
    /\ sellerSignals' = analyzeSellerExhaustion(txAnalysis, priceHistory)
    /\ pc' = "done"
    /\ UNCHANGED <<currentPrice, micro, structural, outcome, holder,
                   walletScore, priceHistory, txAnalysis, holders, tokenInfo,
                   thrown, bundles, lpHealth, zoneFlags, holderAnalysis,
                   jeeterMetrics, riskScoreResult, callCount,
                   overallScoreResult, clock, requests, callers, completed,
                   cleanups, cache, lastFetched, lastReturn>>

NextExhaustion == AnalyzeSellerExhaustion

SpecExhaustion == InitExhaustion /\ [][NextExhaustion]_vars

(***************************************************************************)
(* WalletQualityAnalyzer.analyze                                           *)
(* Holder addresses are distinct (the position in the list).               *)
(***************************************************************************)
countCategory(hs, cat) ==
    Cardinality({i \in 1..Len(hs) : classifyWallet(hs[i]).category = cat})

\* the mean of sellCount / (buyCount || 1) over the holders with both lists
averageSellBuyRatioOf(hs) ==
    LET both == {i \in 1..Len(hs) :
                    /\ IsDefinedList(hs[i].sellTransactions)
                    /\ IsDefinedList(hs[i].buyTransactions)}
        buyCount(i) == IF Len(hs[i].buyTransactions) = 0 THEN 1
                       ELSE Len(hs[i].buyTransactions)
        B == ProductSeq([i \in 1..Len(hs) |->
                            IF i \in both THEN buyCount(i) ELSE 1])
        total == SumSeq([i \in 1..Len(hs) |->
                            IF i \in both
                            THEN Len(hs[i].sellTransactions)
                                     * (B \div buyCount(i))
                            ELSE 0])
    IN  IF both = {} THEN Rat(0, 1) ELSE Rat(total, B * Cardinality(both))

\* a plausible slip: the sniper penalty left out
overallQualityScoreOf_NoSniperPenalty(dist, totalWallets) ==
    LET qualityNum == 100 * (dist["strong_hands"] + dist["whale"])
                      - 50 * dist["jeeter"]
    IN  IF totalWallets > 0
        THEN Rat(Max(0, Min(100 * totalWallets, qualityNum)), totalWallets)
        ELSE Rat(0, 1)

\* 100 (strong + whale) / total - 50 jeeter / total - 30 sniper / total,
\* clamped to [0,100], as a quotient over totalWallets
overallQualityScoreOf(dist, totalWallets) ==
    LET qualityNum == 100 * (dist["strong_hands"] + dist["whale"])
                      - 50 * dist["jeeter"] - 30 * dist["sniper"]
    IN  IF totalWallets > 0
        THEN Rat(Max(0, Min(100 * totalWallets, qualityNum)), totalWallets)
        ELSE Rat(0, 1)

analyzeWalletQuality_EmptyHoldsLong(hs) ==
    LET total == Len(hs)
        dist == [cat \in WalletCategories |-> countCategory(hs, cat)]
        holdSum == SumSeq([i \in 1..total |-> OrZero(hs[i].averageHoldTime)])
    IN  IF total = 0
        THEN [categoryDistribution |-> dist,
              averageHoldTime |-> Rat(60, 1),
              averageSellBuyRatio |-> Rat(0, 1),
              highQualityWalletCount |-> 0,
              jeeterDominance |-> FALSE,
              sniperDominance |-> FALSE,
              overallQualityScore |-> Rat(0, 1)]
        ELSE [categoryDistribution |-> dist,
              averageHoldTime |-> Rat(holdSum, total),
              averageSellBuyRatio |-> averageSellBuyRatioOf(hs),
              highQualityWalletCount |->
                  dist["strong_hands"] + dist["whale"],
              jeeterDominance |-> 10 * dist["jeeter"] > 4 * total,
              sniperDominance |-> 10 * dist["sniper"] > 3 * total,
              overallQualityScore |-> overallQualityScoreOf(dist, total)]

analyzeWalletQuality(hs) ==
    LET total == Len(hs)
        dist == [cat \in WalletCategories |-> countCategory(hs, cat)]
        holdSum == SumSeq([i \in 1..total |-> OrZero(hs[i].averageHoldTime)])
    IN  IF total = 0
        THEN [categoryDistribution |-> dist,
              averageHoldTime |-> Rat(0, 1),
              averageSellBuyRatio |-> Rat(0, 1),
              highQualityWalletCount |-> 0,
              jeeterDominance |-> FALSE,
              sniperDominance |-> FALSE,
              overallQualityScore |-> Rat(0, 1)]
        ELSE [categoryDistribution |-> dist,
              averageHoldTime |-> Rat(holdSum, total),
              averageSellBuyRatio |-> averageSellBuyRatioOf(hs),
              highQualityWalletCount |->
                  dist["strong_hands"] + dist["whale"],
              jeeterDominance |-> 10 * dist["jeeter"] > 4 * total,
              sniperDominance |-> 10 * dist["sniper"] > 3 * total,
              overallQualityScore |-> overallQualityScoreOf(dist, total)]

(***************************************************************************)
(* JeeterZoneDetector.detect                                               *)
(***************************************************************************)
\* count / totalWallets > n / 10 ; 0 / 0 is NaN and compares false
FractionAbove(count, totalWallets, n) ==
    totalWallets > 0 /\ 10 * count > n * totalWallets

\* a plausible slip: the zone starts above 50
isJeeterZoneOf_Above(riskScore) == riskScore > 50

isJeeterZoneOf(riskScore) == riskScore >= 50

detect(tx, wq, token) ==
    LET dist == wq.categoryDistribution
        totalWallets == SumSeq([i \in 1..8 |->
            dist[<<"sniper", "jeeter", "weak_hands", "strong_hands", "whale",
                   "mev_bot", "router_arbitrage_bot", "unknown">>[i]]])
        highSellToBuyRatio == 100 - tx.buySellRatio > 60
        fastHolderRotation ==
            wq.averageHoldTime.num < 10 * wq.averageHoldTime.den
        snipersEnteringEarly == FractionAbove(dist["sniper"], totalWallets, 3)
        quickDumps == wq.averageHoldTime.num < 5 * wq.averageHoldTime.den
        lpLow == Truthy(token.liquidity) /\ token.liquidity < 10000
        mevSpam == tx.mevPatterns.detected /\ tx.mevPatterns.score > 50
        tooManySwapBots == FractionAbove(dist["mev_bot"], totalWallets, 2)
        noStrongWalletAccumulation == wq.highQualityWalletCount = 0
        lpThin == Truthy(token.liquidity) /\ token.liquidity < 5000
        routerArbitragePump ==
            tx.transactionsPerMinute > 5 /\ tx.averageTransactionSize < 100
        riskScore ==
            (IF highSellToBuyRatio THEN 15 ELSE 0)
            + (IF fastHolderRotation THEN 15 ELSE 0)
            + (IF snipersEnteringEarly THEN 20 ELSE 0)
            + (IF quickDumps THEN 20 ELSE 0)
            + (IF lpLow THEN 15 ELSE 0)
            + (IF mevSpam THEN 15 ELSE 0)
            + (IF tooManySwapBots THEN 10 ELSE 0)
            + (IF noStrongWalletAccumulation THEN 15 ELSE 0)
            + (IF lpThin THEN 20 ELSE 0)
            + (IF routerArbitragePump THEN 10 ELSE 0)
            + (IF wq.jeeterDominance THEN 25 ELSE 0)
            + (IF wq.sniperDominance THEN 20 ELSE 0)
    IN  [highSellToBuyRatio |-> highSellToBuyRatio,
         fastHolderRotation |-> fastHolderRotation,
         snipersEnteringEarly |-> snipersEnteringEarly,
         quickDumps |-> quickDumps,
         liquidityDrainage |-> FALSE,
         mevSpam |-> mevSpam,
         tooManySwapBots |-> tooManySwapBots,
         noStrongWalletAccumulation |-> noStrongWalletAccumulation,
         lpTooThin |-> lpLow \/ lpThin,
         routerArbitragePump |-> routerArbitragePump,
         creatorWalletActivity |-> FALSE,
         suspiciousLPBehavior |-> FALSE,
         riskScore |-> riskScore,
         isJeeterZone |-> isJeeterZoneOf(riskScore)]

\* the inputs of the JeeterZoneDetector specification: the wallet-quality
\* argument is the analysis of a holder list, as computeStructuralSignals
\* hands it over
SniperHolder == MkHolder(10, 3, 15, FALSE, undefinedList, undefinedList)

JeeterHolder == MkHolder(10, 4, 5, TRUE, undefinedList, undefinedList)

MevBotHolder == MkHolder(10, undefined, 51, FALSE, undefinedList,
                         undefinedList)

StrongHolder == MkHolder(20, 121, 2, FALSE, Spaced(1, 0, 600), <<>>)

\* an unclassified holder with the given average hold time
PlainHolder(hold) == MkHolder(10, hold, 5, FALSE, undefinedList,
                              undefinedList)

\* n copies of the holder h
Copies(n, h) == [i \in 1..n |-> h]

\* no holder; average hold time 4, exactly 5 and exactly 10; sniper
\* fraction exactly 0.3; jeeter fraction exactly 0.4 with MEV-bot fraction
\* exactly 0.2; every fraction above its threshold
DetectHolderInputs ==
    {<<>>,
     Copies(2, PlainHolder(4)),
     Copies(2, PlainHolder(5)),
     Copies(2, PlainHolder(10)),
     Copies(3, SniperHolder) \o Copies(7, StrongHolder),
     Copies(4, SniperHolder) \o Copies(4, JeeterHolder)
         \o Copies(2, MevBotHolder),
     Copies(4, SniperHolder) \o Copies(5, JeeterHolder)
         \o Copies(3, MevBotHolder)}

DetectTxInputs ==
    [buySellRatio : {39, 40},
     mevPatterns : {[detected |-> FALSE, score |-> 60],
                    [detected |-> TRUE, score |-> 50],
                    [detected |-> TRUE, score |-> 51]},
     transactionsPerMinute : {5, 6},
     averageTransactionSize : {99, 100}]

DetectTokenInputs ==
    [liquidity : {undefined, 0, 3000, 4999, 5000, 9999, 10000},
     marketCap : {200000}]

InitDetect ==
    /\ pc = "call"
    /\ txAnalysis \in DetectTxInputs
    /\ holders \in DetectHolderInputs
    /\ tokenInfo \in DetectTokenInputs
    /\ zoneFlags = NoZoneFlags
    /\ sellerSignals = NoExhaustion
    /\ lpHealth = NoLPHealth
    /\ priceHistory = <<>>
    /\ bundles = <<>>
    /\ holder = NoHolder
    /\ walletScore = NoWalletScore
    /\ currentPrice = 0
    /\ micro = NoMicro
    /\ structural = NoStructural
    /\ outcome = NoOutcome
    /\ thrown = FALSE
    /\ holderAnalysis = NoHolderAnalysis
    /\ jeeterMetrics = NoJeeterMetrics
    /\ riskScoreResult = 0
    /\ callCount = 0
    /\ overallScoreResult = 0
    /\ clock = 0
    /\ requests = <<>>
    /\ callers = <<>>
    /\ completed = <<>>
    /\ cleanups = 0
    /\ cache = NoCacheEntry
    /\ lastFetched = 0 - 1
    /\ lastReturn = NoReturn

Detect ==
    /\ pc = "call"
    /\ zoneFlags' = detect(txAnalysis, analyzeWalletQuality(holders),
                           tokenInfo)
    /\ pc' = "done"
    /\ UNCHANGED <<currentPrice, micro, structural, outcome, holder,
                   walletScore, priceHistory, txAnalysis, holders, tokenInfo,
                   thrown, bundles, lpHealth, sellerSignals, holderAnalysis,
                   jeeterMetrics, riskScoreResult, callCount,
                   overallScoreResult, clock, requests, callers, completed,
                   cleanups, cache, lastFetched, lastReturn>>

NextDetect == Detect

SpecDetect == InitDetect /\ [][NextDetect]_vars

(***************************************************************************)
(* Layer 2: computeStructuralSignals                                       *)
(***************************************************************************)
\* a plausible slip: the exhaustion score weighted 0.3 like the other two
computeStructuralSignals_EqualWeights(hs, tx, token, prices) ==
    LET walletQuality == analyzeWalletQuality(hs)
        lpSignals == analyzeLPHealth(token)
        exhaustionSignals == analyzeSellerExhaustion(tx, prices)
        jeeterFlags == detect(tx, walletQuality, token)
        wq == walletQuality.overallQualityScore
        rawNum == 5000 * wq.den + 30 * wq.num
                  + (30 * NaNToZero(lpSignals.healthScore)
                     + 30 * NaNToZero(exhaustionSignals.exhaustionScore)
                     - 40 * NaNToZero(jeeterFlags.riskScore)) * wq.den
    IN  [walletQualityAnalysis |-> walletQuality,
         lpHealthSignals |-> lpSignals,
         sellerExhaustion |-> exhaustionSignals,
         jeeterFlags |-> jeeterFlags,
         structuralScore |-> Clamp100(Round(rawNum, 100 * wq.den))]

computeStructuralSignals(hs, tx, token, prices) ==
    LET walletQuality == analyzeWalletQuality(hs)
        lpSignals == analyzeLPHealth(token)
        exhaustionSignals == analyzeSellerExhaustion(tx, prices)
        jeeterFlags == detect(tx, walletQuality, token)
        wq == walletQuality.overallQualityScore
        \* 50 + 0.3 wq + 0.3 lp + 0.25 exhaustion - 0.4 risk, times 100 wq.den
        rawNum == 5000 * wq.den + 30 * wq.num
                  + (30 * NaNToZero(lpSignals.healthScore)
                     + 25 * NaNToZero(exhaustionSignals.exhaustionScore)
                     - 40 * NaNToZero(jeeterFlags.riskScore)) * wq.den
    IN  [walletQualityAnalysis |-> walletQuality,
         lpHealthSignals |-> lpSignals,
         sellerExhaustion |-> exhaustionSignals,
         jeeterFlags |-> jeeterFlags,
         structuralScore |-> Clamp100(Round(rawNum, 100 * wq.den))]


(***************************************************************************)
(* computeMicrostructureSignals on its own, over price series that are     *)
(* short, contain the price 0, jump by more than the clamps, or are long   *)
(* enough to have an earlier window.                                       *)
(***************************************************************************)
RecentWindow == 30    \* the window of pricesOnly.slice(-30)

\* n prices 1, 2, 1, 2, ...
Zig(n) == [i \in 1..n |-> IF i % 2 = 1 THEN 1 ELSE 2]

\* n prices 1, 2, ..., n
Ramp(n) == [i \in 1..n |-> i]

\* the series getPriceHistory builds for a price that rose by 200% in 24
\* hours: the interpolated prices of the first half are negative and
\* Math.max(0, price) makes them 0
ZeroLed == Flat(12, 0) \o Ramp(12)

MicroPriceInputs ==
    {<<>>, <<1>>, <<0, 0>>, <<0, 5>>, <<5, 0>>, <<1, 20>>, <<20, 1>>,
     <<1, 30, 1>>, <<2, 2, 1, 1>>,
     ZeroLed,
     Zig(5) \o Flat(RecentWindow, 1),
     Ripple(5) \o Zig(RecentWindow),
     Zig(7) \o Flat(RecentWindow - 6, 1) \o Zig(6),
     Flat(5, 1) \o Zig(RecentWindow + 1) \o Flat(RecentWindow, 1)}

MicroTxInputs ==
    [buySellRatio : {undefined, 20},
     buySellRatio5m : {50},
     buySellRatio15m : {undefined, 0, 100},
     buySellRatio1h : {undefined, 0, 100},
     mevPatterns : {[detected |-> FALSE, score |-> 60],
                    [detected |-> TRUE, score |-> 60],
                    [detected |-> TRUE, score |-> 10]},
     transactionsPerMinute : {undefined, 0, 100},
     averageTransactionSize : {undefined, 500}]

InitMicro ==
    /\ pc = "call"
    /\ priceHistory \in MicroPriceInputs
    /\ txAnalysis \in MicroTxInputs
    /\ micro = NoMicro
    /\ holders = <<>>
    /\ tokenInfo = NoToken
    /\ currentPrice = 0
    /\ structural = NoStructural
    /\ outcome = NoOutcome
    /\ holder = NoHolder
    /\ walletScore = NoWalletScore
    /\ thrown = FALSE
    /\ bundles = <<>>
    /\ lpHealth = NoLPHealth
    /\ sellerSignals = NoExhaustion
    /\ zoneFlags = NoZoneFlags
    /\ holderAnalysis = NoHolderAnalysis
    /\ jeeterMetrics = NoJeeterMetrics
    /\ riskScoreResult = 0
    /\ callCount = 0
    /\ overallScoreResult = 0
    /\ clock = 0
    /\ requests = <<>>
    /\ callers = <<>>
    /\ completed = <<>>
    /\ cleanups = 0
    /\ cache = NoCacheEntry
    /\ lastFetched = 0 - 1
    /\ lastReturn = NoReturn

ComputeMicrostructureSignals ==
    /\ pc = "call"
    /\ micro' = computeMicrostructureSignals(priceHistory, txAnalysis)
    /\ pc' = "done"
    /\ UNCHANGED <<currentPrice, structural, outcome, holder, walletScore,
                   priceHistory, txAnalysis, holders, tokenInfo, thrown,
                   bundles, lpHealth, sellerSignals, zoneFlags,
                   holderAnalysis, jeeterMetrics, riskScoreResult, callCount,
                   overallScoreResult, clock, requests, callers, completed,
                   cleanups, cache, lastFetched, lastReturn>>

NextMicro == ComputeMicrostructureSignals

SpecMicro == InitMicro /\ [][NextMicro]_vars


(***************************************************************************)
(* ThreeLayerAnalysisService.analyzeToken                                  *)
(***************************************************************************)
MaxLen == 3        \* longest price series drawn

MaxHolders == 2    \* longest holder list drawn

PriceValues == {1, 2}

\* all sequences over S of length at most n
SeqsUpTo(S, n) == UNION {[1..k -> S] : k \in 0..n}

\* a sniper, a long-holding holder without sells, a quick anonymous holder,
\* a flagged jeeter and a whale
PipelineHolderInputs ==
    {MkHolder(10, 3, 15, FALSE, undefinedList, undefinedList),
     MkHolder(20, 121, 2, FALSE, Spaced(1, 0, 600), <<>>),
     MkHolder(10, 3, 5, FALSE, undefinedList, undefinedList),
     MkHolder(10, 20, 5, TRUE, undefinedList, undefinedList),
     MkHolder(80, 61, 2, FALSE, undefinedList, undefinedList)}

TxInputs ==
    [buySellRatio : {30, 80},
     buySellRatio5m : {50},
     buySellRatio15m : {50, 100},
     buySellRatio1h : {80},
     sellVolume : {1000},
     totalVolume : {2000},
     largeSellCount : {1},
     largeBuyCount : {3},
     mevPatterns : {[detected |-> FALSE, score |-> 0],
                    [detected |-> TRUE, score |-> 60]},
     transactionsPerMinute : {6},
     averageTransactionSize : {50, 500}]

TokenInputs ==
    [liquidity : {undefined, 3000, 60000}, marketCap : {undefined, 200000}]

InitPipeline ==
    /\ pc = "layer1"
    /\ priceHistory \in SeqsUpTo(PriceValues, MaxLen)
    /\ txAnalysis \in TxInputs
    /\ holders \in SeqsUpTo(PipelineHolderInputs, MaxHolders)
    /\ tokenInfo \in TokenInputs
    /\ currentPrice = 0
    /\ micro = NoMicro
    /\ structural = NoStructural
    /\ outcome = NoOutcome
    /\ holder = NoHolder
    /\ walletScore = NoWalletScore
    /\ thrown = FALSE
    /\ bundles = <<>>
    /\ lpHealth = NoLPHealth
    /\ sellerSignals = NoExhaustion
    /\ zoneFlags = NoZoneFlags
    /\ holderAnalysis = NoHolderAnalysis
    /\ jeeterMetrics = NoJeeterMetrics
    /\ riskScoreResult = 0
    /\ callCount = 0
    /\ overallScoreResult = 0
    /\ clock = 0
    /\ requests = <<>>
    /\ callers = <<>>
    /\ completed = <<>>
    /\ cleanups = 0
    /\ cache = NoCacheEntry
    /\ lastFetched = 0 - 1
    /\ lastReturn = NoReturn

Layer1 ==
    /\ pc = "layer1"
    /\ micro' = computeMicrostructureSignals(priceHistory, txAnalysis)
    /\ pc' = "layer2"
    /\ UNCHANGED <<currentPrice, structural, outcome, holder, walletScore,
                   priceHistory, txAnalysis, holders, tokenInfo, thrown,
                   bundles, lpHealth, sellerSignals, zoneFlags,
                   holderAnalysis, jeeterMetrics, riskScoreResult, callCount,
                   overallScoreResult, clock, requests, callers, completed,
                   cleanups, cache, lastFetched, lastReturn>>

Layer2 ==
    /\ pc = "layer2"
    /\ structural' = computeStructuralSignals(holders, txAnalysis, tokenInfo,
                                              priceHistory)
    /\ pc' = "layer3"
    /\ UNCHANGED <<currentPrice, micro, outcome, holder, walletScore,
                   priceHistory, txAnalysis, holders, tokenInfo, thrown,
                   bundles, lpHealth, sellerSignals, zoneFlags,
                   holderAnalysis, jeeterMetrics, riskScoreResult, callCount,
                   overallScoreResult, clock, requests, callers, completed,
                   cleanups, cache, lastFetched, lastReturn>>

\* priceHistory[priceHistory.length - 1].price: on an empty series the
\* element is undefined and reading .price throws a TypeError
Layer3Throws ==
    /\ pc = "layer3"
    /\ Len(priceHistory) = 0
    /\ thrown' = TRUE
    /\ pc' = "done"
    /\ UNCHANGED <<currentPrice, micro, structural, outcome, holder,
                   walletScore, priceHistory, txAnalysis, holders, tokenInfo,
                   bundles, lpHealth, sellerSignals, zoneFlags,
                   holderAnalysis, jeeterMetrics, riskScoreResult, callCount,
                   overallScoreResult, clock, requests, callers, completed,
                   cleanups, cache, lastFetched, lastReturn>>

Layer3 ==
    /\ pc = "layer3"
    /\ Len(priceHistory) > 0
    /\ currentPrice' = priceHistory[Len(priceHistory)]
    /\ outcome' = predictOutcome(priceHistory[Len(priceHistory)], micro,
                                 structural)
    /\ pc' = "done"
    /\ UNCHANGED <<micro, structural, holder, walletScore, priceHistory,
                   txAnalysis, holders, tokenInfo, thrown, bundles, lpHealth,
                   sellerSignals, zoneFlags, holderAnalysis, jeeterMetrics,
                   riskScoreResult, callCount, overallScoreResult, clock,
                   requests, callers, completed, cleanups, cache, lastFetched,
                   lastReturn>>

NextPipeline == Layer1 \/ Layer2 \/ Layer3Throws \/ Layer3

SpecPipeline == InitPipeline /\ [][NextPipeline]_vars


(***************************************************************************)
(* detectBundles                                                           *)
(* A holder's address is its position in the list.  balance is a token     *)
(* amount, percentage is in 1/10 percent of supply.                        *)
(***************************************************************************)
\* Math.abs((current.balance - other.balance) / current.balance) < 0.05 ;
\* a division by 0 gives NaN or Infinity, which is not below the bound
balanceWithinFivePct(current, other) ==
    /\ current.balance > 0
    /\ 100 * Abs(current.balance - other.balance) < 5 * current.balance

\* the positions pushed to similarHolders when position i is the current
\* holder and the positions of the set processed are already taken
similarHolders(hs, i, processed) ==
    LET joins(j) ==
            \/ j = i
            \/ /\ j > i
               /\ j \notin processed
               /\ balanceWithinFivePct(hs[i], hs[j])
               /\ hs[j].percentage > 1
    IN  SelectSeq([k \in 1..Len(hs) |-> k], joins)

SeqToSet(q) == {q[k] : k \in 1..Len(q)}

MaxOf(S) == CHOOSE x \in S : \A y \in S : y <= x

MinOf(S) == CHOOSE x \in S : \A y \in S : x <= y

\* a plausible slip: the combined percentage trigger at >= 5
bundleOf_PercentageAtLeast(hs, members) ==
    LET totalPercentage ==
            SumSeq([k \in 1..Len(members) |-> hs[members[k]].percentage])
        balanceSum ==
            SumSeq([k \in 1..Len(members) |-> hs[members[k]].balance])
        avgHoldTimes ==
            {hs[members[k]].averageHoldTime : k \in
                {n \in 1..Len(members) :
                    hs[members[n]].averageHoldTime # undefined}}
        similarPatterns ==
            Cardinality({k \in 1..Len(members) :
                            hs[members[k]].averageHoldTime # undefined})
        jeeterCount ==
            Cardinality({k \in 1..Len(members) : hs[members[k]].isJeeter})
    IN  [addresses |-> members,
         totalPercentage |-> totalPercentage,
         averageBalance |-> Rat(balanceSum, Len(members)),
         isSuspicious |->
            \/ /\ similarPatterns >= 2
               /\ MaxOf(avgHoldTimes) - MinOf(avgHoldTimes) < 10
            \/ totalPercentage >= 50
            \/ jeeterCount >= 2]

\* the BundleGroup built from the positions members (lines 44-89)
bundleOf(hs, members) ==
    LET totalPercentage ==
            SumSeq([k \in 1..Len(members) |-> hs[members[k]].percentage])
        balanceSum ==
            SumSeq([k \in 1..Len(members) |-> hs[members[k]].balance])
        avgHoldTimes ==
            {hs[members[k]].averageHoldTime : k \in
                {n \in 1..Len(members) :
                    hs[members[n]].averageHoldTime # undefined}}
        similarPatterns ==
            Cardinality({k \in 1..Len(members) :
                            hs[members[k]].averageHoldTime # undefined})
        jeeterCount ==
            Cardinality({k \in 1..Len(members) : hs[members[k]].isJeeter})
    IN  [addresses |-> members,
         totalPercentage |-> totalPercentage,
         averageBalance |-> Rat(balanceSum, Len(members)),
         isSuspicious |->
            \/ /\ similarPatterns >= 2
               /\ MaxOf(avgHoldTimes) - MinOf(avgHoldTimes) < 10
            \/ totalPercentage > 50
            \/ jeeterCount >= 2]

\* the outer loop from position i on, with the positions processed so far
\* and the bundles pushed so far
RECURSIVE detectBundlesFrom(_, _, _, _)
detectBundlesFrom(hs, i, processed, acc) ==
    IF i > Len(hs) THEN acc
    ELSE IF i \in processed
    THEN detectBundlesFrom(hs, i + 1, processed, acc)
    ELSE LET members == similarHolders(hs, i, processed)
         IN  detectBundlesFrom(hs, i + 1,
                 processed \cup SeqToSet(members),
                 IF Len(members) >= 3
                 THEN Append(acc, bundleOf(hs, members))
                 ELSE acc)

detectBundles(hs) == detectBundlesFrom(hs, 1, {}, <<>>)

MaxBundleHolders == 5    \* longest holder list handed to detectBundles

MkBundleHolder(balance, pct, hold, jeeter) ==
    [percentage |-> pct, balance |-> balance, averageHoldTime |-> hold,
     transactionCount |-> undefined, jeeterScore |-> undefined,
     isJeeter |-> jeeter, buyTransactions |-> undefinedList,
     sellTransactions |-> undefinedList]

\* balances equal, 3 % apart, 4.9 % apart and exactly 5 % apart; 0.5 %, 2 %
\* and exactly 0.1 % of supply; hold times absent, 0, and 1, 9 and 10 apart
BundleHolderInputs ==
    {MkBundleHolder(1000, 5, undefined, FALSE),
     MkBundleHolder(1030, 5, undefined, TRUE),
     MkBundleHolder(1030, 5, 100, FALSE),
     MkBundleHolder(1049, 5, 109, FALSE),
     MkBundleHolder(1000, 20, 110, FALSE),
     MkBundleHolder(1050, 20, undefined, FALSE),
     MkBundleHolder(1000, 1, 0, TRUE)}

InitBundles ==
    /\ pc = "call"
    /\ holders \in SeqsUpTo(BundleHolderInputs, MaxBundleHolders)
    /\ bundles = <<>>
    /\ holder = NoHolder
    /\ walletScore = NoWalletScore
    /\ currentPrice = 0
    /\ micro = NoMicro
    /\ structural = NoStructural
    /\ outcome = NoOutcome
    /\ priceHistory = <<>>
    /\ txAnalysis = NoTx
    /\ tokenInfo = NoToken
    /\ thrown = FALSE
    /\ lpHealth = NoLPHealth
    /\ sellerSignals = NoExhaustion
    /\ zoneFlags = NoZoneFlags
    /\ holderAnalysis = NoHolderAnalysis
    /\ jeeterMetrics = NoJeeterMetrics
    /\ riskScoreResult = 0
    /\ callCount = 0
    /\ overallScoreResult = 0
    /\ clock = 0
    /\ requests = <<>>
    /\ callers = <<>>
    /\ completed = <<>>
    /\ cleanups = 0
    /\ cache = NoCacheEntry
    /\ lastFetched = 0 - 1
    /\ lastReturn = NoReturn

DetectBundles ==
    /\ pc = "call"
    /\ bundles' = detectBundles(holders)
    /\ pc' = "done"
    /\ UNCHANGED <<currentPrice, micro, structural, outcome, holder,
                   walletScore, priceHistory, txAnalysis, holders, tokenInfo,
                   thrown, lpHealth, sellerSignals, zoneFlags, holderAnalysis,
                   jeeterMetrics, riskScoreResult, callCount,
                   overallScoreResult, clock, requests, callers, completed,
                   cleanups, cache, lastFetched, lastReturn>>

NextBundles == DetectBundles

SpecBundles == InitBundles /\ [][NextBundles]_vars


(***************************************************************************)
(* calculateJeeterRiskScore                                                *)
(* averageHoldTime in minutes; roundTripperPercentage, sellVelocity,       *)
(* churnRate and holderConcentration in percent; botLikePatterns and       *)
(* totalHolders are counts; buySellRatio in 1/100.                         *)
(***************************************************************************)
\* a plausible slip: the first hold-time bucket at <= 5
holdTimePoints_AtMost(averageHoldTime) ==
    IF averageHoldTime <= 5 THEN 20
    ELSE IF averageHoldTime < 30 THEN 15
    ELSE IF averageHoldTime < 60 THEN 10
    ELSE IF averageHoldTime < 120 THEN 5
    ELSE 0

holdTimePoints(averageHoldTime) ==
    IF averageHoldTime < 5 THEN 20
    ELSE IF averageHoldTime < 30 THEN 15
    ELSE IF averageHoldTime < 60 THEN 10
    ELSE IF averageHoldTime < 120 THEN 5
    ELSE 0

roundTripperPoints(roundTripperPercentage) ==
    IF roundTripperPercentage > 60 THEN 20
    ELSE IF roundTripperPercentage > 40 THEN 15
    ELSE IF roundTripperPercentage > 20 THEN 10
    ELSE IF roundTripperPercentage > 10 THEN 5
    ELSE 0

\* (botLikePatterns / totalHolders) * 100 > n ; with no holder the quotient
\* is Infinity for a positive count and NaN for 0 / 0
botPercentageAbove(botLikePatterns, totalHolders, n) ==
    IF totalHolders = 0 THEN botLikePatterns > 0
    ELSE 100 * botLikePatterns > n * totalHolders

botPoints(botLikePatterns, totalHolders) ==
    IF botPercentageAbove(botLikePatterns, totalHolders, 20) THEN 15
    ELSE IF botPercentageAbove(botLikePatterns, totalHolders, 10) THEN 10
    ELSE IF botPercentageAbove(botLikePatterns, totalHolders, 5) THEN 5
    ELSE 0

sellVelocityPoints(sellVelocity) ==
    IF sellVelocity > 70 THEN 15
    ELSE IF sellVelocity > 50 THEN 12
    ELSE IF sellVelocity > 30 THEN 8
    ELSE IF sellVelocity > 15 THEN 4
    ELSE 0

concentrationPoints(holderConcentration) ==
    IF holderConcentration > 50 THEN 15
    ELSE IF holderConcentration > 30 THEN 12
    ELSE IF holderConcentration > 20 THEN 8
    ELSE IF holderConcentration > 10 THEN 4
    ELSE 0

churnPoints(churnRate) ==
    IF churnRate > 60 THEN 10
    ELSE IF churnRate > 40 THEN 7
    ELSE IF churnRate > 20 THEN 4
    ELSE IF churnRate > 10 THEN 2
    ELSE 0

buySellRatioPoints(buySellRatio) ==
    IF buySellRatio < 25 THEN 5
    ELSE IF buySellRatio < 40 THEN 3
    ELSE IF buySellRatio < 60 THEN 1
    ELSE 0

calculateJeeterRiskScore(ha, jm) ==
    LET score == holdTimePoints(jm.averageHoldTime)
                 + roundTripperPoints(jm.roundTripperPercentage)
                 + botPoints(jm.botLikePatterns, ha.totalHolders)
                 + sellVelocityPoints(jm.sellVelocity)
                 + concentrationPoints(ha.holderConcentration)
                 + churnPoints(jm.churnRate)
                 + buySellRatioPoints(ha.buySellRatio)
    IN  Min(100, Round(score, 1))

MaxCalls == 2    \* how often the function is called on the same arguments

HolderAnalysisInputs ==
    [totalHolders : {0, 10, 20},
     holderConcentration : {10, 11, 21, 31, 51},
     buySellRatio : {24, 25, 40, 60}]

JeeterMetricsInputs ==
    [averageHoldTime : {4, 5, 30, 60, 120},
     roundTripperPercentage : {10, 11, 21, 41, 61},
     botLikePatterns : {0, 1, 3},
     sellVelocity : {15, 16, 31, 51, 71},
     churnRate : {10, 11, 21, 41, 61}]

InitRisk ==
    /\ pc = "call"
    /\ holderAnalysis \in HolderAnalysisInputs
    /\ jeeterMetrics \in JeeterMetricsInputs
    /\ riskScoreResult = 0
    /\ callCount = 0
    /\ zoneFlags = NoZoneFlags
    /\ sellerSignals = NoExhaustion
    /\ lpHealth = NoLPHealth
    /\ txAnalysis = NoTx
    /\ tokenInfo = NoToken
    /\ priceHistory = <<>>
    /\ holders = <<>>
    /\ bundles = <<>>
    /\ holder = NoHolder
    /\ walletScore = NoWalletScore
    /\ currentPrice = 0
    /\ micro = NoMicro
    /\ structural = NoStructural
    /\ outcome = NoOutcome
    /\ thrown = FALSE
    /\ overallScoreResult = 0
    /\ clock = 0
    /\ requests = <<>>
    /\ callers = <<>>
    /\ completed = <<>>
    /\ cleanups = 0
    /\ cache = NoCacheEntry
    /\ lastFetched = 0 - 1
    /\ lastReturn = NoReturn

\* a call of calculateJeeterRiskScore; the arguments stay as they are, so a
\* later call is a call on identical inputs
CalculateJeeterRiskScore ==
    /\ callCount < MaxCalls
    /\ riskScoreResult' = calculateJeeterRiskScore(holderAnalysis,
                                                   jeeterMetrics)
    /\ callCount' = callCount + 1
    /\ pc' = "done"
    /\ UNCHANGED <<currentPrice, micro, structural, outcome, holder,
                   walletScore, priceHistory, txAnalysis, holders, tokenInfo,
                   thrown, bundles, lpHealth, sellerSignals, zoneFlags,
                   holderAnalysis, jeeterMetrics, overallScoreResult, clock,
                   requests, callers, completed, cleanups, cache, lastFetched,
                   lastReturn>>

NextRisk == CalculateJeeterRiskScore

SpecRisk == InitRisk /\ [][NextRisk]_vars


(***************************************************************************)
(* calculateOverallScore                                                   *)
(* jeeterRiskScore is the value calculateJeeterRiskScore stored in the     *)
(* holder analysis; holderConcentration and jeeterPercentage in percent.   *)
(***************************************************************************)
overallConcentrationPenalty(holderConcentration) ==
    IF holderConcentration > 30 THEN 20
    ELSE IF holderConcentration > 20 THEN 10
    ELSE 0

overallJeeterPenalty(jeeterPercentage) ==
    IF jeeterPercentage > 50 THEN 15
    ELSE IF jeeterPercentage > 30 THEN 10
    ELSE IF jeeterPercentage > 15 THEN 5
    ELSE 0

\* a plausible slip: the bonus at <= 10
overallBonus_AtMost(holderConcentration, jeeterPercentage) ==
    IF holderConcentration <= 10 /\ jeeterPercentage <= 10 THEN 10 ELSE 0

overallBonus(holderConcentration, jeeterPercentage) ==
    IF holderConcentration < 10 /\ jeeterPercentage < 10 THEN 10 ELSE 0

\* score is kept in halves, since jeeterRiskScore * 0.5 has a half
calculateOverallScore(ha) ==
    LET start == 2 * 100
        afterRisk == start - ha.jeeterRiskScore
        afterConcentration ==
            afterRisk - 2 * overallConcentrationPenalty(ha.holderConcentration)
        afterJeeters ==
            afterConcentration - 2 * overallJeeterPenalty(ha.jeeterPercentage)
        score == afterJeeters
                 + 2 * overallBonus(ha.holderConcentration,
                                    ha.jeeterPercentage)
    IN  Max(0, Min(100, Round(score, 2)))

OverallInputs ==
    [jeeterRiskScore : {0, 1, 19, 20, 49, 50, 79, 80, 99, 100},
     holderConcentration : {0, 9, 10, 20, 21, 30, 31, 100},
     jeeterPercentage : {0, 9, 10, 15, 16, 30, 31, 50, 51, 100}]

InitOverall ==
    /\ pc = "call"
    /\ holderAnalysis \in OverallInputs
    /\ jeeterMetrics = NoJeeterMetrics
    /\ riskScoreResult = 0
    /\ callCount = 0
    /\ zoneFlags = NoZoneFlags
    /\ sellerSignals = NoExhaustion
    /\ lpHealth = NoLPHealth
    /\ txAnalysis = NoTx
    /\ tokenInfo = NoToken
    /\ priceHistory = <<>>
    /\ holders = <<>>
    /\ bundles = <<>>
    /\ holder = NoHolder
    /\ walletScore = NoWalletScore
    /\ currentPrice = 0
    /\ micro = NoMicro
    /\ structural = NoStructural
    /\ outcome = NoOutcome
    /\ thrown = FALSE
    /\ overallScoreResult = 0
    /\ clock = 0
    /\ requests = <<>>
    /\ callers = <<>>
    /\ completed = <<>>
    /\ cleanups = 0
    /\ cache = NoCacheEntry
    /\ lastFetched = 0 - 1
    /\ lastReturn = NoReturn

\* a call of calculateOverallScore; the argument stays as it is, so a later
\* call is a call on an identical input
CalculateOverallScore ==
    /\ callCount < MaxCalls
    /\ overallScoreResult' = calculateOverallScore(holderAnalysis)
    /\ callCount' = callCount + 1
    /\ pc' = "done"
    /\ UNCHANGED <<currentPrice, micro, structural, outcome, holder,
                   walletScore, priceHistory, txAnalysis, holders, tokenInfo,
                   thrown, bundles, lpHealth, sellerSignals, zoneFlags,
                   holderAnalysis, jeeterMetrics, riskScoreResult, clock,
                   requests, callers, completed, cleanups, cache, lastFetched,
                   lastReturn>>

NextOverall == CalculateOverallScore

SpecOverall == InitOverall /\ [][NextOverall]_vars


(***************************************************************************)
(* RateLimiter (heliusRateLimiter), for one key                            *)
(*                                                                         *)
(* checkLimit runs without interruption up to its await; a call that has   *)
(* to wait continues in a second step when its timer fires, with the       *)
(* locals it had before the wait.  The clock moves between a few instants  *)
(* and to the instants timers are set for; a timer fires on time.          *)
(***************************************************************************)
MaxRequests == 8      \* heliusRateLimiter: config.maxRequests

WindowMs == 1000      \* heliusRateLimiter: config.windowMs

NumCallers == 2       \* callers that may be inside checkLimit at a time

MaxLimiterCalls == 17 \* calls of checkLimit made in a behaviour

MaxCleanups == 1      \* runs of the cleanup timer in a behaviour

LimiterCallers == 1..NumCallers

\* the instants at which calls are made
TimePoints == {0, 1, WindowMs, WindowMs + 1}

IdleCaller == [pc |-> "idle", validRequests |-> <<>>, now |-> 0, wakeAt |-> 0]

\* requests.filter((timestamp) => now - timestamp < this.config.windowMs)
validRequestsAt(reqs, now) ==
    SelectSeq(reqs, LAMBDA timestamp : now - timestamp < WindowMs)

\* the times of the latest MaxRequests + 1 returns
recordReturn(times, t) == LastN(Append(times, t), MaxRequests + 1)

\* checkLimit from its start to its await, or to its end if it does not wait
CheckLimit(c) ==
    /\ callers[c].pc = "idle"
    /\ callCount < MaxLimiterCalls
    /\ callCount' = callCount + 1
    /\ LET now == clock
           validRequests == validRequestsAt(requests, now)
           atLimit == Len(validRequests) >= MaxRequests
           waitTime == IF atLimit
                       THEN WindowMs - (now - validRequests[1]) ELSE 0
       IN  IF atLimit /\ waitTime > 0
           THEN /\ callers' = [callers EXCEPT ![c] =
                                  [pc |-> "waiting",
                                   validRequests |-> validRequests,
                                   now |-> now,
                                   wakeAt |-> now + waitTime]]
                /\ UNCHANGED <<requests, completed, cache, lastFetched,
                               lastReturn>>
           ELSE /\ requests' = Append(validRequests, now)
                /\ completed' = recordReturn(completed, clock)
                /\ UNCHANGED callers
    /\ UNCHANGED <<pc, currentPrice, micro, structural, outcome, holder,
                   walletScore, priceHistory, txAnalysis, holders, tokenInfo,
                   thrown, bundles, lpHealth, sellerSignals, zoneFlags,
                   holderAnalysis, jeeterMetrics, riskScoreResult,
                   overallScoreResult, clock, cleanups, cache, lastFetched,
                   lastReturn>>

\* checkLimit after its await: validRequests.push(now) and
\* this.requests.set(key, validRequests), on the locals of before the wait
CheckLimitResume(c) ==
    /\ callers[c].pc = "waiting"
    /\ clock >= callers[c].wakeAt
    /\ requests' = Append(callers[c].validRequests, callers[c].now)
    /\ completed' = recordReturn(completed, clock)
    /\ callers' = [callers EXCEPT ![c] = IdleCaller]
    /\ UNCHANGED <<pc, currentPrice, micro, structural, outcome, holder,
                   walletScore, priceHistory, txAnalysis, holders, tokenInfo,
                   thrown, bundles, lpHealth, sellerSignals, zoneFlags,
                   holderAnalysis, jeeterMetrics, riskScoreResult, callCount,
                   overallScoreResult, clock, cleanups, cache, lastFetched,
                   lastReturn>>

\* cleanup, run by setInterval: an empty list deletes the key, which reads
\* as the empty list again
Cleanup ==
    /\ cleanups < MaxCleanups
    /\ cleanups' = cleanups + 1
    /\ requests' = validRequestsAt(requests, clock)
    /\ UNCHANGED <<pc, currentPrice, micro, structural, outcome, holder,
                   walletScore, priceHistory, txAnalysis, holders, tokenInfo,
                   thrown, bundles, lpHealth, sellerSignals, zoneFlags,
                   holderAnalysis, jeeterMetrics, riskScoreResult, callCount,
                   overallScoreResult, clock, callers, completed, cache,
                   lastFetched, lastReturn>>

\* time passes, to one of the instants or to the instant of a timer, and
\* not beyond a timer that has not fired
Tick ==
    /\ \E t \in TimePoints \cup
                  {callers[c].wakeAt : c \in {d \in LimiterCallers :
                                                callers[d].pc = "waiting"}} :
          /\ t > clock
          /\ \A c \in LimiterCallers :
                callers[c].pc = "waiting" => t <= callers[c].wakeAt
          /\ clock' = t
    /\ UNCHANGED <<pc, currentPrice, micro, structural, outcome, holder,
                   walletScore, priceHistory, txAnalysis, holders, tokenInfo,
                   thrown, bundles, lpHealth, sellerSignals, zoneFlags,
                   holderAnalysis, jeeterMetrics, riskScoreResult, callCount,
                   overallScoreResult, requests, callers, completed, cleanups,
                   cache, lastFetched, lastReturn>>

InitLimiter ==
    /\ pc = "call"
    /\ clock = 0
    /\ requests = <<>>
    /\ callers = [c \in LimiterCallers |-> IdleCaller]
    /\ completed = <<>>
    /\ cleanups = 0
    /\ callCount = 0
    /\ holderAnalysis = NoHolderAnalysis
    /\ jeeterMetrics = NoJeeterMetrics
    /\ riskScoreResult = 0
    /\ overallScoreResult = 0
    /\ zoneFlags = NoZoneFlags
    /\ sellerSignals = NoExhaustion
    /\ lpHealth = NoLPHealth
    /\ txAnalysis = NoTx
    /\ tokenInfo = NoToken
    /\ priceHistory = <<>>
    /\ holders = <<>>
    /\ bundles = <<>>
    /\ holder = NoHolder
    /\ walletScore = NoWalletScore
    /\ currentPrice = 0
    /\ micro = NoMicro
    /\ structural = NoStructural
    /\ outcome = NoOutcome
    /\ thrown = FALSE
    /\ cache = NoCacheEntry
    /\ lastFetched = 0 - 1
    /\ lastReturn = NoReturn

NextLimiter ==
    \/ \E c \in LimiterCallers : CheckLimit(c)
    \/ \E c \in LimiterCallers : CheckLimitResume(c)
    \/ Cleanup
    \/ Tick

SpecLimiter == InitLimiter /\ [][NextLimiter]_vars


(***************************************************************************)
(* TransactionService.getTokenTransactions, for one token address          *)
(*                                                                         *)
(* A call runs without interruption up to its first await: it returns the  *)
(* cached entry or starts to fetch.  The fetch (rate limiter, pair lookup, *)
(* RPC calls) ends in a second step.  An analysis is named by the instant  *)
(* at which its fetch returned it.                                         *)
(***************************************************************************)
CacheTimeout == 60000    \* TransactionService.cacheTimeout

MaxCacheCalls == 4       \* calls of getTokenTransactions in a behaviour

CacheCallers == 1..NumCallers

\* the instants at which calls are made and fetches end
CacheTimePoints == {0, 1, CacheTimeout - 1, CacheTimeout, CacheTimeout + 1}

\* cached && Date.now() - cached.timestamp < this.cacheTimeout
cacheHit(entry, now) ==
    /\ entry # NoCacheEntry
    /\ now - entry.timestamp < CacheTimeout

\* getTokenTransactions up to its first await
GetTokenTransactions(c) ==
    /\ callers[c].pc = "idle"
    /\ callCount < MaxCacheCalls
    /\ callCount' = callCount + 1
    /\ IF cacheHit(cache, clock)
       THEN /\ lastReturn' = [from |-> "cache", data |-> cache.data,
                              cachedAt |-> cache.timestamp, at |-> clock]
            /\ UNCHANGED callers
       ELSE /\ callers' = [callers EXCEPT ![c] = [pc |-> "fetching"]]
            /\ UNCHANGED lastReturn
    /\ UNCHANGED <<pc, currentPrice, micro, structural, outcome, holder,
                   walletScore, priceHistory, txAnalysis, holders, tokenInfo,
                   thrown, bundles, lpHealth, sellerSignals, zoneFlags,
                   holderAnalysis, jeeterMetrics, riskScoreResult,
                   overallScoreResult, clock, requests, completed, cleanups,
                   cache, lastFetched>>

\* the rest of getTokenTransactions: getPairAddress finds a pair or not, and
\* getTransactionsViaRPC returns an analysis or null.  Without a pair the
\* result is returned as it is; with a pair a result that is not null is
\* put into the cache first.
FetchReturns(c) ==
    /\ callers[c].pc = "fetching"
    /\ \E pairFound \in BOOLEAN, isNull \in BOOLEAN :
          LET result == IF isNull THEN undefined ELSE clock
          IN  /\ cache' = IF pairFound /\ ~isNull
                          THEN [data |-> result, timestamp |-> clock]
                          ELSE cache
              /\ lastFetched' = IF isNull THEN lastFetched ELSE clock
              /\ lastReturn' = [from |-> "fetch", data |-> result,
                                cachedAt |-> undefined, at |-> clock]
    /\ callers' = [callers EXCEPT ![c] = [pc |-> "idle"]]
    /\ UNCHANGED <<pc, currentPrice, micro, structural, outcome, holder,
                   walletScore, priceHistory, txAnalysis, holders, tokenInfo,
                   thrown, bundles, lpHealth, sellerSignals, zoneFlags,
                   holderAnalysis, jeeterMetrics, riskScoreResult, callCount,
                   overallScoreResult, clock, requests, completed, cleanups>>

CacheTick ==
    /\ \E t \in CacheTimePoints :
          /\ t > clock
          /\ clock' = t
    /\ UNCHANGED <<pc, currentPrice, micro, structural, outcome, holder,
                   walletScore, priceHistory, txAnalysis, holders, tokenInfo,
                   thrown, bundles, lpHealth, sellerSignals, zoneFlags,
                   holderAnalysis, jeeterMetrics, riskScoreResult, callCount,
                   overallScoreResult, requests, callers, completed, cleanups,
                   cache, lastFetched, lastReturn>>

InitCache ==
    /\ pc = "call"
    /\ clock = 0
    /\ cache = NoCacheEntry
    /\ lastFetched = undefined
    /\ lastReturn = NoReturn
    /\ callers = [c \in CacheCallers |-> [pc |-> "idle"]]
    /\ requests = <<>>
    /\ completed = <<>>
    /\ cleanups = 0
    /\ callCount = 0
    /\ holderAnalysis = NoHolderAnalysis
    /\ jeeterMetrics = NoJeeterMetrics
    /\ riskScoreResult = 0
    /\ overallScoreResult = 0
    /\ zoneFlags = NoZoneFlags
    /\ sellerSignals = NoExhaustion
    /\ lpHealth = NoLPHealth
    /\ txAnalysis = NoTx
    /\ tokenInfo = NoToken
    /\ priceHistory = <<>>
    /\ holders = <<>>
    /\ bundles = <<>>
    /\ holder = NoHolder
    /\ walletScore = NoWalletScore
    /\ currentPrice = 0
    /\ micro = NoMicro
    /\ structural = NoStructural
    /\ outcome = NoOutcome
    /\ thrown = FALSE

NextCache ==
    \/ \E c \in CacheCallers : GetTokenTransactions(c)
    \/ \E c \in CacheCallers : FetchReturns(c)
    \/ CacheTick

SpecCache == InitCache /\ [][NextCache]_vars


(***************************************************************************)
(* Properties of predictOutcome (specification Spec)                       *)
(***************************************************************************)
Done == pc = "done"

isJeeterIn == structural.jeeterFlags.isJeeterZone

riskIn == structural.jeeterFlags.riskScore

\* the scores as the decision reads them
microIn == NaNToZero(micro.microScore)

structuralIn == NaNToZero(structural.structuralScore)

\* C1: a result never has isDipOpportunity and isDipTrap both true, so each
\* call yields exactly one of Opportunity, Trap, Wait (Wait = neither flag).
C1_ExclusiveVerdict ==
    Done => ~(outcome.isDipOpportunity /\ outcome.isDipTrap)

C1_Witness ==
    /\ Done
    /\ isJeeterIn
    /\ microIn >= MicroGoodMin
    /\ structuralIn >= StructuralGoodMin
    /\ outcome.isDipTrap

C5_TrapConfidenceMonotone ==
    (Done /\ outcome.isDipTrap /\ ~isNaN(riskIn)) =>
        \A r2 \in RiskInputs \ {NaN} :
            LET s2 == [structural EXCEPT !.jeeterFlags.riskScore = r2]
                o2 == predictOutcome(currentPrice, micro, s2)
            IN  (r2 >= riskIn /\ o2.isDipTrap)
                    => o2.dipConfidence >= outcome.dipConfidence

C5_Witness ==
    /\ Done
    /\ isJeeterIn
    /\ outcome.isDipTrap
    /\ riskIn = 79
    /\ outcome.dipConfidence = 79
    /\ outcome.combinedScore < 79

\* C6: whatever the inputs (NaN scores, risk score above 100 included),
\* dipConfidence, expectedDipDepthPct and combinedScore are within [0,100]
\* and none is NaN.
C6_OutputsInRange ==
    Done =>
        /\ outcome.dipConfidence \in 0..100
        /\ outcome.expectedDipDepthPct \in 0..1000
        /\ outcome.combinedScore \in 0..100

C6_Witness ==
    /\ Done
    /\ isJeeterIn
    /\ isNaN(micro.microScore)
    /\ ~isNaN(riskIn)
    /\ riskIn > 100

\* the three non-danger verdicts as C7 describes them; conf10 is the
\* confidence in 1/10
C7_Verdict(isOpp, isTrap, conf10, depth10, lo, hi, opt) ==
    /\ outcome.isDipOpportunity = isOpp
    /\ outcome.isDipTrap = isTrap
    /\ 10 * outcome.dipConfidence = conf10
    /\ outcome.expectedDipDepthPct = depth10
    /\ outcome.entryZone = [min |-> currentPrice * lo,
                            max |-> currentPrice * hi,
                            optimal |-> currentPrice * opt]

C7_OpportunityDepth ==
    10 * (3 + Max(0, 10 - Round(NaNToZero(micro.volatilityStdDevRecent), 10)))

\* C7 as stated: without the danger-zone flag the verdict is Opportunity iff
\* microScore >= 60 and structuralScore >= 55, Trap iff both are below, else
\* Wait, with the stated confidences (Wait: combinedScore x 0.7), depths and
\* bands.
C7_Original ==
    (Done /\ ~isJeeterIn) =>
        IF microIn >= 60 /\ structuralIn >= 55
        THEN C7_Verdict(TRUE, FALSE, 10 * Max(outcome.combinedScore, 60),
                        C7_OpportunityDepth, 92, 102, 98)
        ELSE IF microIn < 60 /\ structuralIn < 55
        THEN C7_Verdict(FALSE, TRUE, 10 * Max(outcome.combinedScore, 55),
                        120, 75, 95, 85)
        ELSE C7_Verdict(FALSE, FALSE, 7 * outcome.combinedScore,
                        80, 85, 100, 92)

\* C7 amended: as stated, except that the Wait confidence is
\* round(combinedScore x 0.7); NaN scores are read as 0 and a NaN recent
\* volatility as 0.
C7_VerdictOrder ==
    (Done /\ ~isJeeterIn) =>
        IF microIn >= 60 /\ structuralIn >= 55
        THEN C7_Verdict(TRUE, FALSE, 10 * Max(outcome.combinedScore, 60),
                        C7_OpportunityDepth, 92, 102, 98)
        ELSE IF microIn < 60 /\ structuralIn < 55
        THEN C7_Verdict(FALSE, TRUE, 10 * Max(outcome.combinedScore, 55),
                        120, 75, 95, 85)
        ELSE C7_Verdict(FALSE, FALSE,
                        10 * ((7 * outcome.combinedScore + 5) \div 10),
                        80, 85, 100, 92)

C7_Witness ==
    /\ Done
    /\ ~isJeeterIn
    /\ ~outcome.isDipOpportunity
    /\ ~outcome.isDipTrap
    /\ (7 * outcome.combinedScore) % 10 # 0

\* C8: combinedScore = round(clamp(0.45 microScore + 0.45 structuralScore
\* + 10 max(0, 1 - |volatilityTrend|), 0, 100)), NaN inputs read as 0.
C8_CombinedScore ==
    Done =>
        LET m == IF isNaN(micro.microScore) THEN 0 ELSE micro.microScore
            s == IF isNaN(structural.structuralScore)
                 THEN 0 ELSE structural.structuralScore
            v == IF isNaN(micro.volatilityTrendPct)
                 THEN 0 ELSE micro.volatilityTrendPct
            sum == 45 * m + 45 * s + 10 * Max(0, 100 - Abs(v))
            clamped == Max(0, Min(10000, sum))
        IN  outcome.combinedScore = (clamped + 50) \div 100

C8_Witness ==
    /\ Done
    /\ isNaN(micro.microScore)
    /\ micro.volatilityTrendPct = -55
    /\ structural.structuralScore = 61
    /\ outcome.combinedScore = 32

\* C9: riskLevel is high if the danger-zone flag is set or the risk score
\* is > 50; otherwise low if combinedScore > 70; otherwise medium.
C9_RiskLevel ==
    Done =>
        outcome.riskLevel =
            IF isJeeterIn \/ (~isNaN(riskIn) /\ riskIn > 50) THEN "high"
            ELSE IF outcome.combinedScore > 70 /\ ~isJeeterIn THEN "low"
            ELSE "medium"

C9_Witness ==
    /\ Done
    /\ ~isJeeterIn
    /\ riskIn = 50
    /\ outcome.combinedScore > 70
    /\ outcome.riskLevel = "low"

(***************************************************************************)
(* Properties of classifyWallet (specification SpecClassify)               *)
(***************************************************************************)
\* the rules in the order the claim gives them
C10_RuleOrder == <<"sniper", "jeeter", "mev_bot", "whale", "strong_hands",
                   "weak_hands", "unknown">>

C10_Matches(h, rule) ==
    CASE rule = "sniper" -> isSniper(h)
      [] rule = "jeeter" -> isJeeterHolder(h)
      [] rule = "mev_bot" -> isMEVBot(h)
      [] rule = "whale" -> isWhale(h)
      [] rule = "strong_hands" -> isStrongHands(h)
      [] rule = "weak_hands" -> isWeakHands(h)
      [] rule = "unknown" -> TRUE

\* C10: the category is that of the earliest matching rule in the order
\* sniper, jeeter, MEV bot, whale, strong hands, weak hands, unknown; it is
\* in the closed category set and the quality score is within [0,100].
C10_FirstMatchWins ==
    Done =>
        /\ \E i \in 1..Len(C10_RuleOrder) :
              /\ walletScore.category = C10_RuleOrder[i]
              /\ C10_Matches(holder, C10_RuleOrder[i])
              /\ \A j \in 1..(i - 1) : ~C10_Matches(holder, C10_RuleOrder[j])
        /\ walletScore.category \in WalletCategories
        /\ walletScore.score \in 0..100

\* the scenario of the claim: 1% of supply, 3 min, 15 transactions, flagged
C10_Witness ==
    /\ Done
    /\ holder.percentage = 10
    /\ holder.averageHoldTime = 3
    /\ holder.transactionCount = 15
    /\ holder.isJeeter
    /\ walletScore.category = "sniper"

\* C11: a holder classified as whale gets quality score 85 if its average
\* hold time is > 60 min, 40 if it is < 10 min (an average hold time of 0
\* included), and 70 otherwise.
C11_WhaleScore ==
    (Done /\ walletScore.category = "whale") =>
        walletScore.score =
            IF holder.averageHoldTime # undefined
               /\ holder.averageHoldTime > 60 THEN 85
            ELSE IF holder.averageHoldTime # undefined
                    /\ holder.averageHoldTime < 10 THEN 40
            ELSE 70

(***************************************************************************)
(* Properties of analyzeToken (specification SpecPipeline)                 *)
(***************************************************************************)
\* C3: for well-typed inputs, empty holder list and a price series of
\* length 0, 1 or 2 included, analyzeToken returns an Outcome and never
\* throws.
C3_NeverThrows == ~thrown

Returned == pc = "done" /\ ~thrown

C4_Scenario ==
    /\ Returned
    /\ txAnalysis.buySellRatio = 80
    /\ ~txAnalysis.mevPatterns.detected
    /\ structural.lpHealthSignals.isHealthy
    /\ structural.structuralScore >= 55
    /\ micro.microScore >= 60

\* C4 as stated: with buySellRatio 0.8, no MEV pattern detected, a healthy
\* LP, structuralScore >= 55 and microScore >= 60 the outcome is an
\* Opportunity whose optimal entry is currentPrice x 0.98.
C4_Original ==
    C4_Scenario =>
        /\ outcome.isDipOpportunity
        /\ outcome.entryZone.optimal = currentPrice * 98

\* C4 amended: the same, provided the danger-zone flag is not set.
C4_OpportunityScenario ==
    (C4_Scenario /\ ~structural.jeeterFlags.isJeeterZone) =>
        /\ outcome.isDipOpportunity
        /\ outcome.entryZone.optimal = currentPrice * 98

C4_Witness ==
    /\ C4_Scenario
    /\ ~structural.jeeterFlags.isJeeterZone
    /\ currentPrice = 2
    /\ outcome.isDipOpportunity
    /\ outcome.entryZone.optimal = 196

(***************************************************************************)
(* Properties of layer 2 (specification SpecPipeline)                      *)
(***************************************************************************)
\* layer 2 has run: structural holds the result of computeStructuralSignals
Layer2Done == pc \in {"layer3", "done"}

\* the number of holders the classification puts in a category
C12_Count(cat) ==
    Cardinality({i \in 1..Len(holders) :
                    classifyWallet(holders[i]).category = cat})

\* C12: the overall wallet-quality score equals
\* 100 (strongHands + whale)/total - 50 jeeterFraction - 30 sniperFraction
\* clamped to [0,100], and is exactly 0 for the empty holder set.
C12_OverallQuality ==
    Layer2Done =>
        LET q == structural.walletQualityAnalysis.overallQualityScore
            n == Len(holders)
            raw == 100 * (C12_Count("strong_hands") + C12_Count("whale"))
                   - 50 * C12_Count("jeeter") - 30 * C12_Count("sniper")
        IN  /\ q.den > 0
            /\ IF n = 0 THEN q.num = 0
               ELSE IF raw < 0 THEN q.num = 0
               ELSE IF raw > 100 * n THEN q.num = 100 * q.den
               ELSE q.num * n = raw * q.den

\* a whale and a sniper: (100 - 30) / 2 = 35
C12_Witness ==
    /\ Layer2Done
    /\ Len(holders) = 2
    /\ C12_Count("whale") = 1
    /\ C12_Count("sniper") = 1
    /\ structural.walletQualityAnalysis.overallQualityScore = Rat(70, 2)

(***************************************************************************)
(* Properties of detectBundles (specification SpecBundles)                 *)
(***************************************************************************)
\* the position that collects position j in the single pass: the first
\* earlier position that collects itself and whose balance and percentage
\* test j passes, and j itself if there is none
RECURSIVE C13_Leader(_, _)
C13_Leader(hs, j) ==
    LET earlier == {i \in 1..(j - 1) :
                        /\ C13_Leader(hs, i) = i
                        /\ balanceWithinFivePct(hs[i], hs[j])
                        /\ hs[j].percentage > 1}
    IN  IF earlier = {} THEN j ELSE MinOf(earlier)

C13_Group(hs, i) == {j \in 1..Len(hs) : C13_Leader(hs, j) = i}

\* the triggers: the known hold times of the members (two at least) lie
\* less than 10 minutes apart, the combined percentage is > 5, or at least
\* 2 members are flagged as jeeters
C13_Triggered(hs, G) ==
    LET known == {j \in G : hs[j].averageHoldTime # undefined}
    IN  \/ /\ Cardinality(known) >= 2
           /\ \A a, b \in known :
                 hs[a].averageHoldTime - hs[b].averageHoldTime < 10
        \/ SumSeq([k \in 1..Len(hs) |->
                      IF k \in G THEN hs[k].percentage ELSE 0]) > 50
        \/ Cardinality({j \in G : hs[j].isJeeter}) >= 2

\* 5 holders within 3 % balance variance, each 0.5 % of supply, two of them
\* flagged jeeters
C13_Scenario ==
    /\ Len(holders) = 5
    /\ \A a, b \in 1..5 :
          100 * Abs(holders[a].balance - holders[b].balance)
              <= 3 * holders[a].balance
    /\ \A a \in 1..5 : holders[a].percentage = 5
    /\ Cardinality({a \in 1..5 : holders[a].isJeeter}) = 2

C14_Liquidity == IF tokenInfo.liquidity = undefined THEN 0
                 ELSE tokenInfo.liquidity

C14_MarketCap == IF tokenInfo.marketCap = undefined THEN 0
                 ELSE tokenInfo.marketCap

C14_AmountPenalty ==
    IF C14_Liquidity < 5000 THEN 40
    ELSE IF C14_Liquidity < 10000 THEN 20
    ELSE IF C14_Liquidity < 50000 THEN 10
    ELSE 0

\* the penalty of the ratio liquidity / marketCap, a market cap of 0 giving
\* the ratio 0
C14_RatioPenalty ==
    LET num == IF C14_MarketCap = 0 THEN 0 ELSE C14_Liquidity
        den == IF C14_MarketCap = 0 THEN 1 ELSE C14_MarketCap
    IN  IF 100 * num < 5 * den THEN 30
        ELSE IF 10 * num < den THEN 15
        ELSE IF 2 * num > den THEN 10
        ELSE 0

C14_RatioIsZero == C14_MarketCap = 0 \/ C14_Liquidity = 0

C14_HardZero == C14_MarketCap > 0 /\ C14_Liquidity = 0

\* C14 as stated: the score is 100 less the amount penalty less the ratio
\* penalty, 0 if market cap > 0 and liquidity = 0, and isHealthy iff the
\* score is >= 60.
C14_Original ==
    Done =>
        /\ lpHealth.healthScore =
              IF C14_HardZero THEN 0
              ELSE 100 - C14_AmountPenalty - C14_RatioPenalty
        /\ lpHealth.isHealthy <=> lpHealth.healthScore >= 60

\* C14 amended: the same, the ratio penalty being applied only when the
\* ratio is > 0.
C14_LPHealth ==
    Done =>
        /\ lpHealth.healthScore =
              IF C14_HardZero THEN 0
              ELSE 100 - C14_AmountPenalty
                       - (IF C14_RatioIsZero THEN 0 ELSE C14_RatioPenalty)
        /\ lpHealth.isHealthy <=> lpHealth.healthScore >= 60

\* thin liquidity and no market cap: 100 - 40 = 60, healthy, no ratio penalty
C14_Witness ==
    /\ Done
    /\ tokenInfo.liquidity = 3000
    /\ tokenInfo.marketCap = undefined
    /\ lpHealth.healthScore = 60
    /\ lpHealth.isHealthy

(***************************************************************************)
(* Properties of SellerExhaustionAnalyzer.analyze (SpecExhaustion)         *)
(***************************************************************************)
\* C15: isBottomSignal is true iff the exhaustion score is >= 60 and the
\* tight-price-range, seller-dominance-collapse and MEV-inactivity signals
\* are all true; a score >= 60 alone never sets it.
C15_BottomGate ==
    Done =>
        /\ sellerSignals.isBottomSignal <=>
              /\ sellerSignals.exhaustionScore >= 60
              /\ sellerSignals.tightPriceRange
              /\ sellerSignals.sellerDominanceCollapse
              /\ sellerSignals.mevInactivity
        /\ sellerSignals.sellerDominanceCollapse <=>
              txAnalysis.buySellRatio > 60
        /\ sellerSignals.mevInactivity <=>
              (~txAnalysis.mevPatterns.detected
                  \/ txAnalysis.mevPatterns.score < 20)

\* the gate open: every gated signal and a score of at least 60
C15_Witness ==
    /\ Done
    /\ sellerSignals.isBottomSignal
    /\ sellerSignals.exhaustionScore >= 60
    /\ sellerSignals.tightPriceRange
    /\ txAnalysis.buySellRatio = 61
    /\ txAnalysis.mevPatterns.score = 19

\* the volatility trend of the series is <= -0.2: at least 10 prices, the
\* earlier half not flat, and recent <= 0.8 earlier, compared as squares
C16_TrendAtMostCollapse ==
    /\ Len(priceHistory) >= 10
    /\ LET midPoint == Len(priceHistory) \div 2
           recent == priceVolatilitySquared(
                         SubSeq(priceHistory, midPoint + 1, Len(priceHistory)))
           earlier == priceVolatilitySquared(SubSeq(priceHistory, 1, midPoint))
       IN  /\ earlier.num # 0
           /\ 100 * recent.num * earlier.den <= 64 * earlier.num * recent.den

C16_Points ==
    (IF sellerSignals.decreasingSellVolume THEN 20 ELSE 0)
    + (IF sellerSignals.decreasingSellFrequency THEN 15 ELSE 0)
    + (IF sellerSignals.sellerDominanceCollapse THEN 20 ELSE 0)
    + (IF sellerSignals.finalLargeSellerExit THEN 15 ELSE 0)
    + (IF sellerSignals.mevInactivity THEN 10 ELSE 0)
    + (IF sellerSignals.tightPriceRange THEN 10 ELSE 0)
    + (IF sellerSignals.volatilityCollapse THEN 10 ELSE 0)

\* C16: the exhaustion score is the sum of the fixed points of the signals
\* that fire and lies in [0,100]; the volatility-collapse signal fires
\* whenever the volatility trend is <= -0.2, the value -0.2 included.
C16_ExhaustionScore ==
    Done =>
        /\ sellerSignals.exhaustionScore = C16_Points
        /\ sellerSignals.exhaustionScore \in 0..100
        /\ C16_TrendAtMostCollapse => sellerSignals.volatilityCollapse

(***************************************************************************)
(* Properties of JeeterZoneDetector.detect (specification SpecDetect)      *)
(***************************************************************************)
\* the points of the conditions that do not read the liquidity and are
\* reported as a flag of their own
C17_FlagPoints ==
    (IF zoneFlags.highSellToBuyRatio THEN 15 ELSE 0)
    + (IF zoneFlags.fastHolderRotation THEN 15 ELSE 0)
    + (IF zoneFlags.snipersEnteringEarly THEN 20 ELSE 0)
    + (IF zoneFlags.quickDumps THEN 20 ELSE 0)
    + (IF zoneFlags.mevSpam THEN 15 ELSE 0)
    + (IF zoneFlags.tooManySwapBots THEN 10 ELSE 0)
    + (IF zoneFlags.noStrongWalletAccumulation THEN 15 ELSE 0)
    + (IF zoneFlags.routerArbitragePump THEN 10 ELSE 0)

\* the points of the two dominance conditions, read from the wallet-quality
\* analysis of the holder list
C17_DominancePoints ==
    LET wq == analyzeWalletQuality(holders)
    IN  (IF wq.jeeterDominance THEN 25 ELSE 0)
        + (IF wq.sniperDominance THEN 20 ELSE 0)

\* the points of the two liquidity conditions for a liquidity l
C17_LiquidityPoints(l) ==
    (IF l < 10000 THEN 15 ELSE 0) + (IF l < 5000 THEN 20 ELSE 0)

\* each reported flag is its condition on the inputs
C17_FlagsAreConditions ==
    LET wq == analyzeWalletQuality(holders)
        total == Len(holders)
    IN  /\ zoneFlags.highSellToBuyRatio <=> 100 - txAnalysis.buySellRatio > 60
        /\ zoneFlags.fastHolderRotation <=>
              wq.averageHoldTime.num < 10 * wq.averageHoldTime.den
        /\ zoneFlags.quickDumps <=>
              wq.averageHoldTime.num < 5 * wq.averageHoldTime.den
        /\ zoneFlags.snipersEnteringEarly <=>
              (total > 0 /\ 10 * wq.categoryDistribution["sniper"] > 3 * total)
        /\ zoneFlags.tooManySwapBots <=>
              (total > 0 /\ 10 * wq.categoryDistribution["mev_bot"] > 2 * total)
        /\ zoneFlags.mevSpam <=>
              (txAnalysis.mevPatterns.detected
                  /\ txAnalysis.mevPatterns.score > 50)
        /\ zoneFlags.noStrongWalletAccumulation <=>
              wq.highQualityWalletCount = 0
        /\ zoneFlags.routerArbitragePump <=>
              (txAnalysis.transactionsPerMinute > 5
                  /\ txAnalysis.averageTransactionSize < 100)

C18_LiquidityFlags ==
    Done =>
        LET l == IF tokenInfo.liquidity = undefined THEN 0
                 ELSE tokenInfo.liquidity
        IN  zoneFlags.riskScore =
                C17_FlagPoints + C17_DominancePoints + C17_LiquidityPoints(l)

\* C19: the risk score returned by detect is within 0..100, so the
\* jeeter-zone penalty riskScore / 4 is never more than 25 points.
C19_RiskScoreInRange ==
    Done =>
        /\ zoneFlags.riskScore \in 0..100
        /\ zoneFlags.riskScore <= 4 * 25

(***************************************************************************)
(* Properties of calculateJeeterRiskScore (specification SpecRisk)         *)
(***************************************************************************)
\* the points of the first row of the table whose bound x exceeds: each row
\* is <<bound, points>>, the bounds descending
RECURSIVE C20_Above(_, _)
C20_Above(x, table) ==
    IF table = <<>> THEN 0
    ELSE IF x > Head(table)[1] THEN Head(table)[2]
    ELSE C20_Above(x, Tail(table))

\* the points of the first row whose bound x is below, the bounds ascending
RECURSIVE C20_Below(_, _)
C20_Below(x, table) ==
    IF table = <<>> THEN 0
    ELSE IF x < Head(table)[1] THEN Head(table)[2]
    ELSE C20_Below(x, Tail(table))

\* the seven bucket scores of the thresholds table
C20_Buckets ==
    << C20_Below(jeeterMetrics.averageHoldTime,
                 << <<5, 20>>, <<30, 15>>, <<60, 10>>, <<120, 5>> >>),
       C20_Above(jeeterMetrics.roundTripperPercentage,
                 << <<60, 20>>, <<40, 15>>, <<20, 10>>, <<10, 5>> >>),
       IF holderAnalysis.totalHolders = 0
       THEN (IF jeeterMetrics.botLikePatterns > 0 THEN 15 ELSE 0)
       ELSE C20_Above(100 * jeeterMetrics.botLikePatterns,
                      << <<20 * holderAnalysis.totalHolders, 15>>,
                         <<10 * holderAnalysis.totalHolders, 10>>,
                         <<5 * holderAnalysis.totalHolders, 5>> >>),
       C20_Above(jeeterMetrics.sellVelocity,
                 << <<70, 15>>, <<50, 12>>, <<30, 8>>, <<15, 4>> >>),
       C20_Above(holderAnalysis.holderConcentration,
                 << <<50, 15>>, <<30, 12>>, <<20, 8>>, <<10, 4>> >>),
       C20_Above(jeeterMetrics.churnRate,
                 << <<60, 10>>, <<40, 7>>, <<20, 4>>, <<10, 2>> >>),
       C20_Below(holderAnalysis.buySellRatio,
                 << <<25, 5>>, <<40, 3>>, <<60, 1>> >>) >>

C20_Caps == <<20, 20, 15, 15, 15, 10, 5>>

C20_Returned ==
    callCount > 0 =>
        /\ \A i \in 1..7 : C20_Buckets[i] \in 0..C20_Caps[i]
        /\ riskScoreResult = SumSeq(C20_Buckets)
        /\ riskScoreResult \in 0..100

C20_SameAgain == callCount > 0 => riskScoreResult' = riskScoreResult

\* C20: calculateJeeterRiskScore returns the sum of seven bucket scores
\* capped at 20, 20, 15, 15, 15, 10 and 5 points (a holder count of 0
\* included), the result lies in [0,100] and is a number, and a call on
\* identical inputs gives the identical result.
C20_RiskScore == []C20_Returned /\ [][C20_SameAgain]_vars

\* no holder but bot-like patterns counted: the quotient is Infinity and
\* the bucket gives its cap; called twice
C20_Witness ==
    /\ callCount = 2
    /\ holderAnalysis.totalHolders = 0
    /\ jeeterMetrics.botLikePatterns = 1
    /\ jeeterMetrics.averageHoldTime = 5
    /\ C20_Buckets[3] = 15
    /\ riskScoreResult >= 15 + 15

(***************************************************************************)
(* Properties of calculateOverallScore (specification SpecOverall)         *)
(***************************************************************************)
C21_Exact2 ==
    LET ha == holderAnalysis
        c == ha.holderConcentration
        j == ha.jeeterPercentage
    IN  2 * 100 - ha.jeeterRiskScore
        - 2 * (CASE c > 30 -> 20 [] c > 20 /\ c <= 30 -> 10 [] OTHER -> 0)
        - 2 * (CASE j > 50 -> 15 [] j > 30 /\ j <= 50 -> 10
                 [] j > 15 /\ j <= 30 -> 5 [] OTHER -> 0)
        + 2 * (IF c < 10 /\ j < 10 THEN 10 ELSE 0)

\* C21: calculateOverallScore returns 100 - 0.5 x jeeterRiskScore, less the
\* concentration penalty (20 above 30%, 10 above 20%) and the
\* jeeter-percentage penalty (15 above 50%, 10 above 30%, 5 above 15%), plus
\* 10 when concentration < 10% and jeeter percentage < 10%, rounded to the
\* nearest integer and brought into [0,100]; the result always lies in
\* [0,100].
C21_OverallScore ==
    (pc = "done" /\ callCount >= 1) =>
        /\ overallScoreResult \in 0..100
        /\ \/ /\ C21_Exact2 > 2 * 100
              /\ overallScoreResult = 100
           \/ /\ C21_Exact2 < 0
              /\ overallScoreResult = 0
           \/ /\ C21_Exact2 \in 0..(2 * 100)
              /\ 2 * overallScoreResult - C21_Exact2 \in {0, 1}

\* the bonus is granted on top of a risk-free score and the cap applies
C21_Witness ==
    /\ pc = "done"
    /\ callCount >= 1
    /\ holderAnalysis.jeeterRiskScore = 19
    /\ holderAnalysis.holderConcentration = 9
    /\ holderAnalysis.jeeterPercentage = 9
    /\ overallScoreResult = 100

(***************************************************************************)
(* Properties of computeStructuralSignals (specification SpecPipeline)     *)
(***************************************************************************)
\* the weighted sum of the four component scores of the structural signals,
\* a NaN component read as 0, as the fraction num / den
C22_WeightedSum ==
    LET wq == structural.walletQualityAnalysis.overallQualityScore
        lp == structural.lpHealthSignals.healthScore
        ex == structural.sellerExhaustion.exhaustionScore
        risk == structural.jeeterFlags.riskScore
        zero(x) == IF x = NaN THEN 0 ELSE x
    IN  [num |-> 5000 * wq.den + 30 * wq.num
                 + (30 * zero(lp) + 25 * zero(ex) - 40 * zero(risk)) * wq.den,
         den |-> 100 * wq.den]

\* C22 as stated: structuralScore is the weighted sum itself, clamped to
\* [0,100].
C22_Original ==
    Layer2Done =>
        LET x == C22_WeightedSum
            s == structural.structuralScore
        IN  IF x.num < 0 THEN s = 0
            ELSE IF x.num > 100 * x.den THEN s = 100
            ELSE s * x.den = x.num

\* C22 (amended): structuralScore is 50 + 0.3 x walletQuality + 0.3 x
\* lpHealth + 0.25 x exhaustionScore - 0.4 x dangerZoneRiskScore, a NaN
\* component read as 0, rounded to the nearest integer (halves up) and then
\* clamped to [0,100].
C22_StructuralScore ==
    Layer2Done =>
        LET x == C22_WeightedSum
            s == structural.structuralScore
        IN  /\ s \in 0..100
            /\ \E r \in (0 - 100)..300 :
                  /\ 2 * r * x.den - x.den <= 2 * x.num
                  /\ 2 * x.num < 2 * r * x.den + x.den
                  /\ s = Max(0, Min(100, r))

\* a weighted sum that is not an integer and lies inside the range
C22_Witness ==
    /\ Layer2Done
    /\ C22_WeightedSum.num > 0
    /\ C22_WeightedSum.num < 100 * C22_WeightedSum.den
    /\ C22_WeightedSum.num % C22_WeightedSum.den # 0
    /\ structural.sellerExhaustion.exhaustionScore > 0
    /\ structural.jeeterFlags.riskScore > 0

(***************************************************************************)
(* Properties of computeMicrostructureSignals (specification SpecMicro)    *)
(***************************************************************************)
C23_MomentumInRange(m) ==
    /\ m.den > 0
    /\ m.num # NaN
    /\ (0 - 10) * m.den <= m.num
    /\ m.num <= 10 * m.den

C24_IsZero(m) == m.num = 0 /\ m.den > 0

\* (last - first) / first over the whole series
C24_MomentumOverAll(m) ==
    LET n == Len(priceHistory)
    IN  m.num * priceHistory[1] = (priceHistory[n] - priceHistory[1]) * m.den

C25_AtMostEightPerWindow ==
    Len(completed) > MaxRequests =>
        completed[Len(completed)] - completed[1] >= WindowMs

(***************************************************************************)
(* Properties of getTokenTransactions (specification SpecCache)            *)
(***************************************************************************)
\* a call starts to fetch
C26_FetchStarts ==
    \E c \in CacheCallers :
        callers[c].pc = "idle" /\ callers'[c].pc = "fetching"

\* no call starts to fetch within 60 seconds after a fetch has returned an
\* analysis
C26_NoRefetch ==
    C26_FetchStarts =>
        (lastFetched = undefined \/ clock - lastFetched >= CacheTimeout)

\* an analysis returned from the cache was put there less than 60 seconds
\* before
C26_NotStale ==
    lastReturn.from = "cache" =>
        lastReturn.at - lastReturn.cachedAt < CacheTimeout

\* C26: once getTokenTransactions has fetched the analysis of the token,
\* every call within 60 seconds returns the cached analysis without a new
\* fetch, and a cached analysis older than 60 seconds is never returned.
C26_CachedForOneMinute == []C26_NotStale /\ [][C26_NoRefetch]_vars

(***************************************************************************)
(* Properties of the pipeline on an empty holder list (SpecPipeline)       *)
(***************************************************************************)
C27_LayerTwoDone == pc \in {"layer3", "done"}

C28_IsWait == ~outcome.isDipOpportunity /\ ~outcome.isDipTrap

\* C28: in the pipeline, where the danger-zone flag and the risk score
\* handed to predictOutcome come from one detect result, the risk level is
\* high iff the danger-zone flag is set; hence an Opportunity or a Wait
\* never carries risk level high.
C28_HighIffDangerZone ==
    Returned =>
        /\ outcome.riskLevel = "high" <=> structural.jeeterFlags.isJeeterZone
        /\ (outcome.isDipOpportunity \/ C28_IsWait) =>
               outcome.riskLevel # "high"

\* the flag alone makes the level high: the risk score is not above 50
C28_Witness ==
    /\ Returned
    /\ Len(holders) > 0
    /\ structural.jeeterFlags.riskScore = 50
    /\ structural.jeeterFlags.isJeeterZone
    /\ outcome.riskLevel = "high"
    /\ outcome.isDipTrap

(***************************************************************************)
(* Properties of the risk level of a Trap (specification Spec)             *)
(***************************************************************************)
C29_ScoresInRange ==
    /\ ~isNaN(micro.microScore)
    /\ micro.microScore >= 0
    /\ micro.microScore <= 100
    /\ ~isNaN(structural.structuralScore)
    /\ structural.structuralScore >= 0
    /\ structural.structuralScore <= 100

\* C29: for microScore and structuralScore in [0,100] and any volatility
\* trend, a Trap never carries risk level low: a danger-zone Trap is high,
\* and a Trap selected because microScore < 60 and structuralScore < 55 has
\* combinedScore <= 70.
C29_TrapNeverLow ==
    (pc = "done" /\ C29_ScoresInRange /\ outcome.isDipTrap) =>
        /\ outcome.riskLevel # "low"
        /\ structural.jeeterFlags.isJeeterZone =>
               outcome.riskLevel = "high"
        /\ ~structural.jeeterFlags.isJeeterZone =>
               /\ micro.microScore < MicroGoodMin
               /\ structural.structuralScore < StructuralGoodMin
               /\ outcome.combinedScore <= 70

\* the highest poor-poor inputs of the model with a flat volatility trend
C29_Witness ==
    /\ pc = "done"
    /\ outcome.isDipTrap
    /\ ~structural.jeeterFlags.isJeeterZone
    /\ micro.microScore = 59
    /\ structural.structuralScore = 54
    /\ micro.volatilityTrendPct = 0
    /\ outcome.combinedScore = 61
    /\ outcome.riskLevel = "medium"

(***************************************************************************)
(* Properties of detectBundles on three similar holders (SpecBundles)      *)
(***************************************************************************)
\* positions a, b, c hold three different holders, each with more than
\* 0.1 % of supply, whose balances differ by less than 5 % whichever of
\* the two is the reference
C30_SimilarTrio(hs, a, b, c) ==
    /\ a # b /\ a # c /\ b # c
    /\ \A x \in {a, b, c} : hs[x].percentage > 1
    /\ \A x, y \in {a, b, c} : balanceWithinFivePct(hs[x], hs[y])

\* C30: whenever the holder list contains three holders, each with more
\* than 0.1 % of supply, whose balances pairwise differ by less than 5 %
\* relative, detectBundles reports at least one group, for every order of
\* the list and whatever other holders are present.
C30_TrioReported ==
    Done =>
        ((\E a, b, c \in 1..Len(holders) :
              C30_SimilarTrio(holders, a, b, c))
            => Len(bundles) >= 1)

====
